---- MODULE Spec2Model ----
(***************************************************************************)
(* The LLM generation / judge pipeline of the test harness:                *)
(*   - OllamaRunner (src/src/utils/ollama_client.py),                      *)
(*   - the attempt controller of test_local_article_generation             *)
(*     (src/tests/llm/test_article_generation.py),                         *)
(*   - the single-pass audit of test_article_quality_audit_strict          *)
(*     (src/tests/llm/test_article_quality_audit.py).                      *)
(*                                                                         *)
(* Text is a sequence of one-character strings, so that len(), slicing,    *)
(* re.sub, split and "in" are computed as Python computes them.            *)
(* Temperatures are in hundredths (0.25 is 25).                            *)
(***************************************************************************)
EXTENDS Integers, Sequences, FiniteSets, TLC

VARIABLES
    test,             \* what runs: "generation", "audit", or "assess" for the function alone
    pc,               \* the position in the test function
    fake,             \* USE_FAKE_OLLAMA: FAKE_OLLAMA and OllamaRunner.use_fake
    promptsExist,     \* PROMPTS_FILE.exists()
    installed,        \* the models client.show answers for
    template,         \* the prompt template of the definitions
    scenarios,        \* data["scenarios"], as scenario ids
    genTable,         \* a stub generation service's answers by slot; <<>> for a live service
    judgeTable,       \* a stub judge service's answers by slot; <<>> for a live service
    run,              \* the number of this run of the test function
    sIdx,             \* the scenario loop's position
    mIdx,             \* the model loop's position
    index,            \* the attempt loop's index
    attempt_log,      \* the attempt trace of the pair
    failure_log,
    output,
    success,
    last_judge_text,
    judge_text,
    stabilized,
    note,             \* the attempt's record while it is being built
    calls,            \* the service calls made for the pair, in order
    attachments,      \* what the pair handed to the reporting sink
    verdicts,         \* under stub services: the verdicts of the finished pairs, by run
    iteration,        \* the audit's iteration loop variable
    audit_result,     \* the AuditResult row being built
    model_results,    \* the rows of the model under audit
    model_summaries,  \* ModelAuditSummary by model, for the models audited so far
    cautionary_models,
    failing_models,
    failure_message,  \* the models pytest.fail names, with their run counts
    given_text,       \* a text given to a function called alone
    given_topic,      \* a topic given to a function called alone
    given_limit,      \* the limit given to the normalizer called alone
    config,           \* what a script reads from its arguments and its environment
    probes,           \* what each call to a service that may fail meets, by call number
    attempt,          \* the variable of a script's retry loop
    sleeps,           \* the waits handed to time.sleep, in order
    backend,          \* the demo application's users and articles
    requests,         \* the seeding requests sent to the demo application, in order
    created_users,    \* seed_demo_data.main: created_users, in insertion order
    snapshot,         \* the demo application's users and articles after the first seeding
    checks,           \* health_check.main: results
    exit_code,        \* how a script's invocation ended
    state_file,       \* STATE_FILE: whether it exists and the servers it records
    processes,        \* the server processes that are running
    signals,          \* the signals sent to processes, in order
    cursor,           \* the position of a script's loop over its data
    last_exc,         \* _retry_with_backoff: the call whose exception is last_exc, 0 for None
    spawned,          \* the server processes start_server has spawned, in order
    invocations       \* the invocations of the server manager that have ended, in order

\* ------------------------------------------------------------------ text

\* Marks a position that a substitution removes.
DROP == ""

\* The characters str.strip() and the regex class \s remove.
Whitespace == {" ", "\n", "\t"}

UpperChars ==
    <<"A","B","C","D","E","F","G","H","I","J","K","L","M",
      "N","O","P","Q","R","S","T","U","V","W","X","Y","Z">>

LowerChars ==
    <<"a","b","c","d","e","f","g","h","i","j","k","l","m",
      "n","o","p","q","r","s","t","u","v","w","x","y","z">>

UpperSet == {UpperChars[i] : i \in 1..26}

LowerSet == {LowerChars[i] : i \in 1..26}

\* The regex class [A-Za-z].
AlphaSet == UpperSet \cup LowerSet

LowerMap == [c \in UpperSet |-> LowerChars[CHOOSE i \in 1..26 : UpperChars[i] = c]]

UpperMap == [c \in LowerSet |-> UpperChars[CHOOSE i \in 1..26 : LowerChars[i] = c]]

IsWs(c) == c \in Whitespace

\* The text that f, a function on 1..n, spells (computed once, not at each use).
Text(f) == f \o <<>>

\* str.lower()
ToLower(s) == Text([i \in 1..Len(s) |-> IF s[i] \in UpperSet THEN LowerMap[s[i]] ELSE s[i]])

\* str.upper()
ToUpper(s) == Text([i \in 1..Len(s) |-> IF s[i] \in LowerSet THEN UpperMap[s[i]] ELSE s[i]])

Keep(c) == c # DROP

RECURSIVE LastNonWs(_, _)
\* The last index <= i of s that holds no whitespace, 0 if none (the recursion is as
\* deep as the whitespace run that ends at i).
LastNonWs(s, i) ==
    IF i < 1 THEN 0
    ELSE IF IsWs(s[i]) THEN LastNonWs(s, i - 1) ELSE i

NonZero(i) == i # 0

\* The indices of s that satisfy Test(s, i), in increasing order.
IndicesOf(s, Test(_, _)) ==
    SelectSeq([i \in 1..Len(s) |-> IF Test(s, i) THEN i ELSE 0], NonZero)

NotWsAt(s, i) == ~IsWs(s[i])

SpaceAt(s, i) == s[i] = " "

\* str.strip()
Strip(s) ==
    LET ix == IndicesOf(s, NotWsAt)
    IN IF ix = <<>> THEN <<>> ELSE SubSeq(s, ix[1], ix[Len(ix)])

\* Position i of s lies in a run of two or more dashes.
InDashRun(s, i) ==
    /\ s[i] = "-"
    /\ \/ (i > 1 /\ s[i - 1] = "-")
       \/ (i < Len(s) /\ s[i + 1] = "-")

\* re.sub(r"-{2,}\s*", " ", s): each maximal run of two or more dashes, with the
\* whitespace that follows it, becomes one space.
CollapseDashes(s) ==
    LET marked == [i \in 1..Len(s) |->
            IF InDashRun(s, i)
            THEN IF i > 1 /\ s[i - 1] = "-" THEN DROP ELSE " "
            ELSE IF IsWs(s[i])
                 THEN LET p == LastNonWs(s, i)
                      IN IF p >= 1 /\ InDashRun(s, p) THEN DROP ELSE s[i]
                 ELSE s[i]]
    IN SelectSeq(marked, Keep)

\* re.sub(r"\s+", " ", s): each maximal run of whitespace becomes one space.
CollapseWhitespace(s) ==
    LET marked == [i \in 1..Len(s) |->
            IF IsWs(s[i])
            THEN IF i > 1 /\ IsWs(s[i - 1]) THEN DROP ELSE " "
            ELSE s[i]]
    IN SelectSeq(marked, Keep)

\* The clean-up without the strip that follows the whitespace substitution.
CollapseUnstripped(raw) == CollapseWhitespace(CollapseDashes(Strip(raw)))

\* The clean-up both tests apply to a raw generation output before measuring it.
Collapse(raw) == Strip(CollapseWhitespace(CollapseDashes(Strip(raw))))

\* s[:n]
Prefix(s, n) == SubSeq(s, 1, IF Len(s) < n THEN Len(s) ELSE n)

\* s.rsplit(" ", 1)[0]
RSplitHead(s) ==
    LET ix == IndicesOf(s, SpaceAt)
    IN IF ix = <<>> THEN s ELSE SubSeq(s, 1, ix[Len(ix)] - 1)

\* A trim that cuts at the first space after the limit.
TrimAfterWord(s, limit) ==
    LET ix == SelectSeq(IndicesOf(s, SpaceAt), LAMBDA i : i > limit)
    IN Strip(IF ix = <<>> THEN s ELSE SubSeq(s, 1, ix[1] - 1))

\* output[:limit].rsplit(" ", 1)[0].strip()
Trim(s, limit) == Strip(RSplitHead(Prefix(s, limit)))

\* The collapsed text c, measured: the trim applies when it is over the limit.
Measurement(c, limit) ==
    [raw |-> Len(c),
     trimmed |-> Len(c) > limit,
     out |-> IF Len(c) > limit THEN Trim(c, limit) ELSE c]

\* What both tests compute from a raw output: the collapsed length ("raw" in the
\* note, original_length in the audit), whether it was over the limit, and the
\* output, trimmed when it was.
Measure(raw, limit) == Measurement(Collapse(raw), limit)

Normalize(raw, limit) == Measure(raw, limit).out

\* A topic keyword is longer than this many letters.
MinTermLen == 3

\* s[i..j] is a maximal run of [A-Za-z], one match of re.findall(r"[A-Za-z]+", s).
IsAlphaRun(s, i, j) ==
    /\ i <= j
    /\ \A k \in i..j : s[k] \in AlphaSet
    /\ (i = 1 \/ s[i - 1] \notin AlphaSet)
    /\ (j = Len(s) \/ s[j + 1] \notin AlphaSet)

\* A run of letters of s begins at i.
AlphaStartAt(s, i) == s[i] \in AlphaSet /\ (i = 1 \/ s[i - 1] \notin AlphaSet)

\* A run of letters of s ends at i.
AlphaEndAt(s, i) == s[i] \in AlphaSet /\ (i = Len(s) \/ s[i + 1] \notin AlphaSet)

\* The lower-cased runs of more than MinTermLen letters: the k-th run goes from the
\* k-th start to the k-th end.
RunsOver(s, starts, ends) ==
    {ToLower(SubSeq(s, starts[k], ends[k])) :
        k \in {n \in 1..Len(starts) : ends[n] - starts[n] + 1 > MinTermLen}}

\* {term.lower() for term in re.findall(r"[A-Za-z]+", topic) if len(term) > 3}
TopicTerms(topic_text) ==
    RunsOver(topic_text, IndicesOf(topic_text, AlphaStartAt),
             IndicesOf(topic_text, AlphaEndAt))

\* term in text
Contains(text, term) ==
    \E i \in 1..(Len(text) - Len(term) + 1) :
        SubSeq(text, i, i + Len(term) - 1) = term

\* {term for term in topic_terms if term in output.lower()}
MatchedTerms(terms, text) ==
    LET low == ToLower(text)
    IN {t \in terms : Contains(low, t)}

\* ------------------------------------------------------------------ data

\* GENERATOR_MODELS
GENERATOR_MODELS == <<"gemma3:4b", "deepseek-r1:8b">>

\* JUDGE_MODEL
JUDGE_MODEL == "gpt-oss:20b"

\* OllamaRunner._chat_models
ChatModels == {"deepseek-r1:8b"}

\* The scenario ids of the prompt definitions (a sample: the definitions are loaded
\* from a YAML file). The ids are picked so that every seed fits a 32-bit integer.
ScenarioIds == <<"solar-summary", "python_short", "topic_ai">>

TopicSolar ==
    <<"S","o","l","a","r"," ","e","n","e","r","g","y">>

TopicPython ==
    <<"P","y","t","h","o","n">>

TopicAI ==
    <<"A","I">>

TopicMix ==
    <<"S","o","l","a","r"," ","e","n","e","r","g","y"," ","w","i","n","d"," ","t","i",
      "d","e"," ","h","e","a","t">>

\* The id of a scenario whose topic has five keywords.
MixScenario == "overview_energy"

\* A topic of one line whose two keywords follow 105 short words.
TopicLong ==
    Text([i \in 1..420 |-> <<"t","h","e"," ">>[((i - 1) % 4) + 1]])
        \o <<"s","o","l","a","r"," ","e","n","e","r","g","y">>

\* The id of the scenario with that topic.
LongScenario == "long_form"

\* scenario["vars"]["topic"]: two keywords, one keyword, no keyword, five keywords,
\* two keywords at the end of a long line.
TopicOf ==
    ("solar-summary" :> TopicSolar) @@ ("python_short" :> TopicPython) @@ ("topic_ai" :> TopicAI)
        @@ (MixScenario :> TopicMix) @@ (LongScenario :> TopicLong)

\* The prompt template "concise_article", as two sample definitions: one that asks for
\* an article (head, topic, tail), one that does not.
ArticleHead ==
    <<"W","r","i","t","e"," ","a"," ","c","o","n","c","i","s","e"," ","a","r","t","i","c","l",
      "e"," ","b","e","t","w","e","e","n"," ","3","0","0"," ","a","n","d"," ","5","0","0"," ",
      "c","h","a","r","a","c","t","e","r","s",".","\n","T","o","p","i","c",":"," ">>

ArticleTail ==
    <<"\n","K","e","e","p"," ","i","t"," ","f","a","c","t","u","a","l",".">>

PlainHead ==
    <<"S","u","m","m","a","r","i","s","e"," ","t","h","i","s"," ","s","u","b","j","e","c","t",
      " ","i","n"," ","o","n","e"," ","p","a","r","a","g","r","a","p","h",":"," ">>

Templates == {"article", "plain"}

\* template.render(**vars_)
Render(prompt_template, topic_text) ==
    IF prompt_template = "article" THEN ArticleHead \o topic_text \o ArticleTail
    ELSE PlainHead \o topic_text

\* int(hashlib.md5(f"{scenario_id}::{model}".encode()).hexdigest()[:8], 16)
Md5SeedTable ==
    ("solar-summary" :> (("gemma3:4b" :> 23379658) @@ ("deepseek-r1:8b" :> 204777828))) @@
    ("python_short" :> (("gemma3:4b" :> 894801536) @@ ("deepseek-r1:8b" :> 2004010781))) @@
    ("topic_ai" :> (("gemma3:4b" :> 1003813375) @@ ("deepseek-r1:8b" :> 311885328))) @@
    ("overview_energy" :> (("gemma3:4b" :> 1564942539) @@ ("deepseek-r1:8b" :> 724960296))) @@
    ("long_form" :> (("gemma3:4b" :> 682698779) @@ ("deepseek-r1:8b" :> 159839663)))

\* int(hashlib.md5(f"{scenario_id}::{model}::audit".encode()).hexdigest()[:8], 16)
Md5AuditSeedTable ==
    ("solar-summary" :> (("gemma3:4b" :> 791770181) @@ ("deepseek-r1:8b" :> 1910243072))) @@
    ("python_short" :> (("gemma3:4b" :> 162821273) @@ ("deepseek-r1:8b" :> 1146605336))) @@
    ("topic_ai" :> (("gemma3:4b" :> 1847201324) @@ ("deepseek-r1:8b" :> 644674584))) @@
    ("overview_energy" :> (("gemma3:4b" :> 60537188) @@ ("deepseek-r1:8b" :> 1491070657))) @@
    ("long_form" :> (("gemma3:4b" :> 838829729) @@ ("deepseek-r1:8b" :> 1033214960)))

\* hashlib.md5(f"{model}:{prompt}".encode()).hexdigest()[:16], for the rendered prompts.
Md5PromptTable ==
    ("article" :> (
      ("solar-summary" :> (
        ("gemma3:4b" :>
            <<"0","7","a","8","f","f","d","4","5","e","0","9","8","5","c","6">>) @@
        ("deepseek-r1:8b" :>
            <<"7","0","1","f","7","1","a","e","6","a","2","2","d","8","a","0">>))) @@
      ("python_short" :> (
        ("gemma3:4b" :>
            <<"f","6","2","b","a","9","b","4","1","0","6","6","4","b","7","c">>) @@
        ("deepseek-r1:8b" :>
            <<"f","0","0","1","8","5","c","8","8","2","7","c","0","7","d","d">>))) @@
      ("topic_ai" :> (
        ("gemma3:4b" :>
            <<"0","5","4","6","2","8","1","0","f","9","1","b","4","2","5","8">>) @@
        ("deepseek-r1:8b" :>
            <<"6","5","5","c","5","8","f","e","b","0","3","d","9","6","0","4">>))) @@
      ("overview_energy" :> (
        ("gemma3:4b" :>
            <<"3","c","a","0","4","6","5","6","3","c","f","7","0","0","b","4">>) @@
        ("deepseek-r1:8b" :>
            <<"8","0","d","3","4","4","3","0","6","0","d","f","1","5","a","4">>))) @@
      ("long_form" :> (
        ("gemma3:4b" :>
            <<"f","0","8","8","3","4","1","c","8","e","5","8","2","7","3","6">>) @@
        ("deepseek-r1:8b" :>
            <<"f","2","2","f","9","3","0","1","2","0","0","c","0","9","5","d">>))))) @@
    ("plain" :> (
      ("solar-summary" :> (
        ("gemma3:4b" :>
            <<"f","f","5","5","0","b","7","a","3","9","d","4","0","1","4","2">>) @@
        ("deepseek-r1:8b" :>
            <<"c","8","b","3","3","3","a","2","d","d","f","c","f","b","4","0">>))) @@
      ("python_short" :> (
        ("gemma3:4b" :>
            <<"a","5","3","d","b","6","c","1","f","0","e","b","b","a","2","2">>) @@
        ("deepseek-r1:8b" :>
            <<"1","4","3","0","0","b","b","1","d","9","c","a","a","2","b","2">>))) @@
      ("topic_ai" :> (
        ("gemma3:4b" :>
            <<"d","a","2","1","d","7","9","8","3","7","c","2","7","2","4","7">>) @@
        ("deepseek-r1:8b" :>
            <<"1","b","0","d","5","6","a","2","b","2","7","0","d","e","1","7">>))) @@
      ("overview_energy" :> (
        ("gemma3:4b" :>
            <<"3","3","1","5","2","2","6","7","e","f","2","d","b","e","f","d">>) @@
        ("deepseek-r1:8b" :>
            <<"9","7","d","b","3","3","d","8","5","e","8","7","8","6","3","d">>))) @@
      ("long_form" :> (
        ("gemma3:4b" :>
            <<"1","f","e","7","e","6","6","a","7","4","8","9","4","2","c","5">>) @@
        ("deepseek-r1:8b" :>
            <<"a","f","9","8","9","8","8","d","9","d","7","d","1","6","2","f">>)))))

\* hashlib.md5(f"{judge_model}:{topic}".encode()).hexdigest()[:6], for JUDGE_MODEL.
Md5JudgeTable ==
    ("solar-summary" :> <<"9","3","5","f","0","d">>) @@
    ("python_short" :> <<"6","8","b","a","b","4">>) @@
    ("topic_ai" :> <<"1","8","b","e","7","a">>) @@
    ("overview_energy" :> <<"7","b","f","c","7","a">>) @@
    ("long_form" :> <<"4","1","b","f","2","9">>)

\* The pieces of OllamaRunner._fake_article's text.
FakeA ==
    <<"T","h","i","s"," ","o","f","f","l","i","n","e"," ","a","r","t","i","c","l","e"," ","s",
      "t","u","b"," ">>

FakeB ==
    <<" ","k","e","e","p","s"," ","t","h","e"," ","s","c","e","n","a","r","i","o"," ","r","e",
      "p","r","o","d","u","c","i","b","l","e"," ","w","h","i","l","e"," ","s","u","m","m","a",
      "r","i","s","i","n","g"," ">>

FakeC ==
    <<"."," ","I","t"," ","h","i","g","h","l","i","g","h","t","s"," ","t","h","e"," ","d","e",
      "t","e","r","m","i","n","i","s","t","i","c"," ","p","i","p","e","l","i","n","e",","," ",
      "r","e","f","e","r","e","n","c","i","n","g"," ","h","a","s","h"," ">>

FakeD ==
    <<" ","f","o","r"," ","i","d","e","n","t","i","c","a","l"," ","r","u","n","s","."," ","T",
      "h","e"," ","t","h","i","r","d"," ","s","e","n","t","e","n","c","e"," ","e","x","p","l",
      "a","i","n","s"," ","t","h","e"," ","s","u","i","t","e"," ","r","u","n","s"," ","l","o",
      "c","a","l","l","y"," ","w","i","t","h"," ","d","o","c","k","e","r","-","c","o","m","p",
      "o","s","e"," ","s","e","r","v","i","c","e","s"," ","a","n","d"," ","f","a","k","e"," ",
      "O","l","l","a","m","a"," ","o","u","t","p","u","t","s","."," ","F","i","n","a","l","l",
      "y",","," ","t","h","e"," ","c","l","o","s","i","n","g"," ","s","e","n","t","e","n","c",
      "e"," ","n","u","d","g","e","s"," ","y","o","u"," ","t","o"," ","e","n","a","b","l","e",
      " ","r","e","a","l"," ","m","o","d","e","l","s"," ","w","h","e","n"," ","r","i","c","h",
      "e","r"," ","c","o","v","e","r","a","g","e"," ","i","s"," ","r","e","q","u","i","r","e",
      "d",".">>

FakePadding ==
    <<" ","O","f","f","l","i","n","e"," ","s","t","u","b"," ","p","a","d","d","i","n","g",".">>

DemoTopic ==
    <<"d","e","m","o"," ","t","o","p","i","c">>

StubResponse ==
    <<"S","t","u","b"," ","r","e","s","p","o","n","s","e"," ">>

PhraseArticle ==
    <<"b","e","t","w","e","e","n"," ","3","0","0"," ","a","n","d"," ","5","0","0"," ","c","h",
      "a","r","a","c","t","e","r","s">>

TopicLabel ==
    <<"T","o","p","i","c",":">>

PassStub ==
    <<"P","A","S","S"," ","s","t","u","b","-">>

\* The raw outputs a live generation backend answers with (a sample), as units that
\* are repeated: too short; long enough with one keyword of "Solar energy" only; over
\* the limit, with dash rules and whitespace runs, holding every keyword.
WordsShort ==
    <<"S","o","l","a","r"," ","e","n","e","r","g","y"," ","i","n"," ","b","r","i","e","f",".">>

WordsPartial ==
    <<"S","o","l","a","r"," ","p","a","n","e","l","s"," ","o","n"," ","e","v","e","r","y"," ",
      "r","o","o","f","."," ">>

WordsLong ==
    <<"S","o","l","a","r"," "," ","e","n","e","r","g","y"," ","-","-","-"," ","a","n","d","\t",
      "P","y","t","h","o","n",".","\n">>

DashLine ==
    <<"-","-","-","\n">>

\* The raw outputs a live judge backend answers with (a sample).
JudgePassText ==
    <<"P","A","S","S">>

JudgeFailText ==
    <<"F","A","I","L"," ","T","h","e"," ","a","r","t","i","c","l","e"," ","d","r","i","f","t",
      "s"," ","o","f","f"," ","t","o","p","i","c",".">>

\* ------------------------------------------------------------ OllamaRunner

RECURSIVE Rep(_, _)
\* unit * n
Rep(unit, n) == IF n = 0 THEN <<>> ELSE unit \o Rep(unit, n - 1)

RawShort == WordsShort

RawPartial == Rep(WordsPartial, 12)

RawLong == DashLine \o Rep(WordsLong, 30)

\* What a live generation backend may answer.
Samples == {RawShort, RawPartial, RawLong}

\* What a live judge backend may answer.
JudgeTexts == {JudgePassText, JudgeFailText}

\* The first index at which term occurs in text, 0 if it does not occur.
Find(text, term) ==
    LET ix == IndicesOf(text, LAMBDA s, i :
                    /\ i + Len(term) - 1 <= Len(s)
                    /\ SubSeq(s, i, i + Len(term) - 1) = term)
    IN IF ix = <<>> THEN 0 ELSE ix[1]

NewlineAt(s, i) == s[i] = "\n"

\* The text up to the first newline of body, stripped.
FirstLine(body, nl) == Strip(IF nl = <<>> THEN body ELSE SubSeq(body, 1, nl[1] - 1))

\* rest without its leading whitespace
AfterWs(rest, ix) == SubSeq(rest, ix[1], Len(rest))

\* group(1).strip() of the match that starts at position at of prompt
TopicAt(prompt, at) ==
    LET rest == SubSeq(prompt, at + Len(TopicLabel), Len(prompt))
        body == AfterWs(rest, IndicesOf(rest, NotWsAt))
    IN FirstLine(body, IndicesOf(body, NewlineAt))

\* The offset of the first "Topic:" of prompt, 0 if there is none.
TopicOffset(prompt) == Find(prompt, TopicLabel)

\* re.search(r"Topic:\s*(.+)", prompt), then group(1).strip(), for a prompt whose
\* first "Topic:" is followed by text: the rest of that line. <<>> if "Topic:" is absent.
TopicLine(prompt) ==
    IF TopicOffset(prompt) = 0 THEN <<>> ELSE TopicAt(prompt, TopicOffset(prompt))

\* The length under which the offline article is padded.
FakeMinLen == 300

\* The length the offline article is cut to.
FakeMaxLen == 500

\* topic = match.group(1).strip() if match else "Demo Topic"
TopicOrDemo(line) == IF line = <<>> THEN DemoTopic ELSE line

\* if len(article) < 300: article += " Offline stub padding." * 5
PadArticle(base) ==
    IF Len(base) < FakeMinLen THEN base \o Rep(FakePadding, 5) ELSE base

\* OllamaRunner._fake_article
FakeArticle(prompt, digest) ==
    Prefix(PadArticle(Strip(FakeA \o SubSeq(digest, 1, 4) \o FakeB
                            \o TopicOrDemo(TopicLine(prompt)) \o FakeC
                            \o SubSeq(digest, 5, 8) \o FakeD)),
           FakeMaxLen)

\* OllamaRunner._fake_response, for a prompt that asks for no JSON and no SQL: the
\* article stub when the prompt has the phrase, else the "Stub response" line.
FakeResponse(prompt, digest) ==
    IF Contains(prompt, PhraseArticle)
    THEN FakeArticle(prompt, digest)
    ELSE StubResponse \o SubSeq(digest, 1, 16)

\* A decision that is PASS as soon as the text begins with it, whatever follows.
DecisionByPrefix(decision_text) ==
    LET ix == IndicesOf(decision_text, NotWsAt)
        tail == SubSeq(decision_text, ix[1], Len(decision_text))
    IN IF ix = <<>> THEN <<>> ELSE ToUpper(Prefix(tail, 4))

\* The judge's verdict is the first whitespace-delimited token, upper-cased:
\* decision_text.split()[0].upper() if decision_text else ""
Decision(decision_text) ==
    LET ix == IndicesOf(decision_text, NotWsAt)
        from == ix[1]
        tail == SubSeq(decision_text, from, Len(decision_text))
        ws == IndicesOf(tail, LAMBDA s, i : IsWs(s[i]))
    IN IF ix = <<>> THEN <<>>
       ELSE ToUpper(IF ws = <<>> THEN tail ELSE SubSeq(tail, 1, ws[1] - 1))

\* decision == "PASS"
JudgePasses(text) == Decision(Strip(text)) = <<"P", "A", "S", "S">>


\* -------------------------------------------------------- audit functions
\* A float that is a quotient of two counts is the pair <<numerator, denominator>>,
\* denominator positive, and is compared exactly.

\* a < b
Less(a, b) == a[1] * b[2] < b[1] * a[2]

\* f"{q:.1%}": q in tenths of a percent, rounded to the nearest. A quotient is
\* half-way between two tenths only when its denominator is a multiple of 16,
\* which no count of keywords or of runs here is, so no tie is rounded.
Permille(q) == (2000 * q[1] + q[2]) \div (2 * q[2])

\* None
None == <<>>

\* MIN_ACCEPTABLE_SUCCESS_RATE = 0.4
MIN_ACCEPTABLE_SUCCESS_RATE == <<2, 5>>

\* The topic_coverage under which a row is off topic: 0.5
MinCoverage == <<1, 2>>

\* The success rates that bound the recommendation tiers: 0.4, 0.6, 0.8
ReplaceBelow == <<2, 5>>

MarginalBelow == <<3, 5>>

AcceptableBelow == <<4, 5>>

\* calculate_topic_coverage
\* calculate_topic_coverage with the terms sought in the output as it is written.
CoverageCaseSensitive(text, topic_text) ==
    IF TopicTerms(topic_text) = {} THEN <<1, 1>>
    ELSE <<Cardinality({term \in TopicTerms(topic_text) : Contains(text, term)}),
           Cardinality(TopicTerms(topic_text))>>

calculate_topic_coverage(text, topic_text) ==
    IF TopicTerms(topic_text) = {} THEN <<1, 1>>
    ELSE <<Cardinality(MatchedTerms(TopicTerms(topic_text), text)),
           Cardinality(TopicTerms(topic_text))>>

\* assess_failure_reason with the coverage checked ahead of the lengths.
AssessCoverageFirst(result, min_length, max_length) ==
    IF Less(result.topic_coverage, MinCoverage)
    THEN <<"off_topic", Permille(result.topic_coverage)>>
    ELSE IF result.length < min_length
    THEN <<"too_short", result.length, min_length>>
    ELSE IF result.length > max_length
    THEN <<"too_long", result.length, max_length>>
    ELSE IF ~result.judge_pass
    THEN <<"judge_rejected">>
    ELSE None

\* assess_failure_reason. A reason is its tag with the numbers the text holds.
assess_failure_reason(result, min_length, max_length) ==
    IF result.length < min_length
    THEN <<"too_short", result.length, min_length>>
    ELSE IF result.length > max_length
    THEN <<"too_long", result.length, max_length>>
    ELSE IF Less(result.topic_coverage, MinCoverage)
    THEN <<"off_topic", Permille(result.topic_coverage)>>
    ELSE IF ~result.judge_pass
    THEN <<"judge_rejected">>
    ELSE None

\* generate_recommendation with the bands closed above: 0.4 is "replace immediately".
RecommendationClosedAbove(summary) ==
    IF ~Less(ReplaceBelow, summary.success_rate) THEN "REPLACE IMMEDIATELY"
    ELSE IF ~Less(MarginalBelow, summary.success_rate) THEN "CONSIDER REPLACEMENT"
    ELSE IF ~Less(AcceptableBelow, summary.success_rate) THEN "ACCEPTABLE"
    ELSE "PERFORMING WELL"

\* generate_recommendation
generate_recommendation(summary) ==
    IF Less(summary.success_rate, ReplaceBelow) THEN "REPLACE IMMEDIATELY"
    ELSE IF Less(summary.success_rate, MarginalBelow) THEN "CONSIDER REPLACEMENT"
    ELSE IF Less(summary.success_rate, AcceptableBelow) THEN "ACCEPTABLE"
    ELSE "PERFORMING WELL"

\* A row counted as successful when the judge passed it.
JudgedSuccess(result) == result.judge_pass

\* r.failure_reason is None
IsSuccess(result) == result.failure_reason = None

\* r.failure_reason is not None
IsFailure(result) == result.failure_reason # None

\* failures_by_reason, for the failed rows
FailuresByReason(failed) ==
    [reason \in {failed[i].failure_reason : i \in DOMAIN failed} |->
        Cardinality({i \in DOMAIN failed : failed[i].failure_reason = reason})]

\* len(successful) / len(model_results) if model_results else 0.0
SuccessRate(successful_runs, total_runs) ==
    IF total_runs > 0 THEN <<successful_runs, total_runs>> ELSE <<0, 1>>

\* summary.recommendation = generate_recommendation(summary)
Recommended(summary) ==
    [summary EXCEPT !.recommendation = generate_recommendation(summary)]

\* ModelAuditSummary(...) of the rows successful and failed of a model
SummaryOf(model_id, results, successful, failed) ==
    Recommended([model |-> model_id,
                 total_runs |-> Len(results),
                 successful_runs |-> Len(successful),
                 failed_runs |-> Len(failed),
                 success_rate |-> SuccessRate(Len(successful), Len(results)),
                 failures_by_reason |-> FailuresByReason(failed),
                 recommendation |-> ""])

\* The summary statistics of a model's rows.
Summary(model_id, results) ==
    SummaryOf(model_id, results, SelectSeq(results, IsSuccess), SelectSeq(results, IsFailure))

\* ---------------------------------------------------------------- bounds

\* The most scenarios the prompt definitions hold.
MaxScenarios == 2

\* The number of slots of a stub generation service's answer table.
GenSlots == 3

\* The number of slots of a stub judge service's answer table.
JudgeSlots == 2

\* How far around each length threshold the lengths given to assess_failure_reason go.
LengthSlack == 2

\* The most keywords of a topic in the coverages given to assess_failure_reason.
MaxKeywords == 3

\* The most runs of a summary given to generate_recommendation.
MaxRuns == 10

\* The most words of a topic given to calculate_topic_coverage.
MaxTopicWords == 3

\* The most words of an output given to calculate_topic_coverage.
MaxTextWords == 2

\* The most characters of a short raw output given to the normalizer.
MaxRawLen == 5

\* The greatest limit given to the normalizer with a short raw output.
MaxLimit == 3

\* ------------------------------------------------------------- constants

\* if length > 500: the normalizer's limit
MaxChars == 500

\* if length < 300: the length gate
MinChars == 300

\* seed_override=seed_base + 97
JudgeSeedOffset == 97

\* seed_override=seed_base + 197
RetrySeedOffset == 197

\* sorted(topic_terms - matched_terms)[:3]
MaxMissingShown == 3

\* attempt_configs of the live mode: (max_tokens, temperature in hundredths)
LiveAttemptConfigs == <<<<180, 25>>, <<160, 20>>, <<200, 15>>, <<140, 10>>>>

\* attempt_configs of the offline mode
FakeAttemptConfigs == <<<<120, 0>>>>

\* AUDIT_ITERATIONS
AUDIT_ITERATIONS == 2

\* seed_override=seed + 50000
AuditJudgeSeedOffset == 50000

\* min_length: int = 300
DefaultMinLength == 300

\* max_length: int = 500
DefaultMaxLength == 500

\* ---------------------------------------------------------------- tables
\* The pure functions above, tabulated once over the texts the services can answer
\* with, so that a step looks its results up. A table is a set of <<key, value>>.

Lookup(table, key) == (CHOOSE p \in table : p[1] = key)[2]

\* The scenario ids a run may be given.
IdSet == {ScenarioIds[i] : i \in 1..Len(ScenarioIds)} \cup {MixScenario, LongScenario}

ModelSet == {GENERATOR_MODELS[i] : i \in 1..Len(GENERATOR_MODELS)}

\* OllamaRunner._fake_response(model, rendered_prompt), by template, scenario and model.
FakeTable ==
    {<<<<t, sid, m>>, FakeResponse(Render(t, TopicOf[sid]), Md5PromptTable[t][sid][m])>> :
        t \in Templates, sid \in IdSet, m \in ModelSet}

Answers == Samples \cup {p[2] : p \in FakeTable}

MeasureTable == {<<raw, Measure(raw, MaxChars)>> : raw \in Answers}

Measured(raw) == Lookup(MeasureTable, raw)

KeywordTable == {<<sid, TopicTerms(TopicOf[sid])>> : sid \in IdSet}

Keywords(sid) == Lookup(KeywordTable, sid)

MatchTable ==
    {<<<<sid, raw>>, MatchedTerms(Keywords(sid), Measured(raw).out)>> :
        sid \in IdSet, raw \in Answers}

Matched(sid, raw) == Lookup(MatchTable, <<sid, raw>>)

CoverageTable ==
    {<<<<sid, raw>>, calculate_topic_coverage(Measured(raw).out, TopicOf[sid])>> :
        sid \in IdSet, raw \in Answers}

Coverage(sid, raw) == Lookup(CoverageTable, <<sid, raw>>)

\* ----------------------------------------------------------------- state

vars ==
    <<test, pc, fake, promptsExist, installed, template, scenarios, genTable, judgeTable,
      run, sIdx, mIdx, index, attempt_log, failure_log, output, success, last_judge_text,
      judge_text, stabilized, note, calls, attachments, verdicts, iteration, audit_result,
      model_results, model_summaries, cautionary_models, failing_models, failure_message,
      given_text, given_topic, given_limit, config, probes, attempt, sleeps, backend,
      requests, created_users, snapshot, checks, exit_code, state_file, processes,
      signals, cursor, last_exc, spawned, invocations>>

\* The state of the helper scripts, which no test function reads or writes.
scriptVars ==
    <<config, probes, attempt, sleeps, backend, requests, created_users, snapshot, checks,
      exit_code, state_file, processes, signals, cursor, last_exc, spawned, invocations>>

\* What the run is given and never changes, and what only a script changes.
inputs ==
    <<test, fake, promptsExist, installed, template, scenarios, genTable, judgeTable,
      given_text, given_topic, given_limit, scriptVars>>

\* The state of one (scenario, model) pair of the attempt controller.
pairVars ==
    <<attempt_log, failure_log, output, success, last_judge_text, judge_text, stabilized,
      note, calls, attachments>>

\* The state of the audit.
auditVars ==
    <<iteration, audit_result, model_results, model_summaries, cautionary_models,
      failing_models, failure_message>>

\* What the audit leaves alone of the attempt controller's state.
controllerVars ==
    <<run, index, attempt_log, failure_log, output, success, last_judge_text, judge_text,
      stabilized, note, verdicts>>

AllModels == {GENERATOR_MODELS[i] : i \in 1..Len(GENERATOR_MODELS)} \cup {JUDGE_MODEL}

RECURSIVE SubLists(_, _)
\* The lists of at most n ids of pool, in the pool's order.
SubLists(pool, n) ==
    IF pool = <<>> \/ n = 0 THEN {<<>>}
    ELSE SubLists(Tail(pool), n)
         \cup {<<Head(pool)>> \o l : l \in SubLists(Tail(pool), n - 1)}

ScenarioLists == SubLists(ScenarioIds, MaxScenarios)

NoNote == [outcome |-> "none"]

NoResult == [iteration |-> 0]

scenario == scenarios[sIdx]

model == GENERATOR_MODELS[mIdx]

topic == TopicOf[scenario]

rendered_prompt == Render(template, topic)

\* seed_base = int(hashlib.md5(f"{scenario['id']}::{model}".encode()).hexdigest()[:8], 16)
SeedBase(scenario_id, model_id) == Md5SeedTable[scenario_id][model_id]

seed_base == SeedBase(scenario, model)

\* attempt_configs
AttemptConfigs == IF fake THEN FakeAttemptConfigs ELSE LiveAttemptConfigs

\* A seed that also depends on the previous output.
AttemptSeedFromOutput(base, i) == base + i + Len(output)

\* A seed that also depends on the run.
AttemptSeedPerRun(base, i) == base + i + run

\* options["seed"] of attempt i
AttemptSeed(base, i) == base + i

\* seed_override of the first judge call of an attempt
JudgeSeed(base) == base + JudgeSeedOffset

\* seed_override of the re-evaluation
RetrySeed(base) == base + RetrySeedOffset

\* A probe that answers for the judge model without asking the backend.
EnsureGenerator(m) == fake \/ m \in installed \/ m = JUDGE_MODEL

\* OllamaRunner.ensure_model
EnsureModel(m) == fake \/ m \in installed

\* missing_models
MissingModels == {m \in AllModels : ~EnsureModel(m)}

\* An offline stub whose article varies with the seed of the options: an odd seed
\* is given the article of the first generator model.
GenerateSeeded(model_id, seed) ==
    IF fake
    THEN {Lookup(FakeTable, <<template, scenario,
                              IF seed % 2 = 0 THEN model_id ELSE GENERATOR_MODELS[1]>>)}
    ELSE IF genTable # <<>> THEN {genTable[(seed % Len(genTable)) + 1]}
    ELSE Samples

\* What OllamaRunner.generate may return for the request: the offline stub's text,
\* a stub service's answer for the seed's slot, or any answer of a live backend.
GenerateOutputs(model_id, seed) ==
    IF fake THEN {Lookup(FakeTable, <<template, scenario, model_id>>)}
    ELSE IF genTable # <<>> THEN {genTable[(seed % Len(genTable)) + 1]}
    ELSE Samples

\* What OllamaRunner.evaluate_with_judge may return as its text.
JudgeOutputs(article, seed) ==
    IF fake THEN {PassStub \o Md5JudgeTable[scenario]}
    ELSE IF judgeTable # <<>>
         THEN {judgeTable[((seed + Len(article)) % Len(judgeTable)) + 1]}
         ELSE JudgeTexts

\* The verdict evaluate_with_judge returns with the text: True in offline mode.
JudgeVerdict(text) == fake \/ JudgePasses(text)

\* required_matches that asks for every keyword of the topic.
RequiredAll(terms) ==
    IF Cardinality(terms) <= 1 THEN 1 ELSE Cardinality(terms)

\* required_matches
RequiredMatches(terms) ==
    IF Cardinality(terms) <= 1 THEN 1
    ELSE IF Cardinality(terms) < 2 THEN Cardinality(terms) ELSE 2

\* a < b for two lower-case words, as Python orders strings
WordLess(a, b) ==
    \E k \in 1..Len(b) :
        /\ \A j \in 1..(k - 1) : j <= Len(a) /\ a[j] = b[j]
        /\ \/ k = Len(a) + 1
           \/ /\ k <= Len(a)
              /\ (CHOOSE i \in 1..26 : LowerChars[i] = a[k])
                    < (CHOOSE i \in 1..26 : LowerChars[i] = b[k])

RECURSIVE Sorted(_)
\* sorted(terms)
Sorted(terms) ==
    IF terms = {} THEN <<>>
    ELSE LET least == CHOOSE t \in terms : \A u \in terms \ {t} : WordLess(t, u)
         IN <<least>> \o Sorted(terms \ {least})

\* sorted(topic_terms - matched_terms)[:3]
MissingTerms(terms, matched) == Prefix(Sorted(terms \ matched), MaxMissingShown)

\* ------------------------------------------------------- attempt controller

\* NextAttempt that gives up one attempt before the end of the list.
NextAttemptEarly ==
    IF index < Len(AttemptConfigs) - 1
    THEN /\ index' = index + 1
         /\ pc' = "attempt"
    ELSE /\ index' = index
         /\ pc' = "loop_end"

\* "continue", or the end of the loop body: the next attempt, or the loop's end.
NextAttempt ==
    IF index < Len(AttemptConfigs)
    THEN /\ index' = index + 1
         /\ pc' = "attempt"
    ELSE /\ index' = index
         /\ pc' = "loop_end"

Attach(name, body) == [name |-> name, body |-> body]

\* A request to a service and its answer, with the pair and the attempt it is made for.
Call(service, model_id, seed, answer) ==
    [service |-> service, model |-> model_id, seed |-> seed, answer |-> answer,
     scenario |-> scenario, generator |-> model, attempt |-> index]

\* test_local_article_generation, up to the loops: the skips and the loading.
StartTest ==
    /\ test = "generation"
    /\ pc = "start"
    /\ IF ~promptsExist \/ MissingModels # {}
       THEN pc' = "skipped"
       ELSE IF scenarios = <<>> THEN pc' = "passed" ELSE pc' = "pair"
    /\ sIdx' = 1
    /\ mIdx' = 1
    /\ UNCHANGED <<inputs, auditVars, run, index, pairVars, verdicts>>

\* The head of the model loop's body: the pair's fresh state.
BeginPair ==
    /\ test = "generation"
    /\ pc = "pair"
    /\ attempt_log' = <<>>
    /\ failure_log' = <<>>
    /\ output' = <<>>
    /\ success' = FALSE
    /\ last_judge_text' = <<>>
    /\ judge_text' = <<>>
    /\ stabilized' = FALSE
    /\ note' = NoNote
    /\ calls' = <<>>
    /\ attachments' = <<>>
    /\ index' = 1
    /\ pc' = "attempt"
    /\ UNCHANGED <<inputs, auditVars, run, sIdx, mIdx, verdicts>>

\* The attempt's record as the length gate sees it: note, before the keyword count.
LengthNote(max_tokens, temp, seed, m) ==
    [index |-> index, num_predict |-> max_tokens, temp |-> temp, seed |-> seed,
     raw |-> m.raw, trimmed |-> IF m.trimmed THEN Len(m.out) ELSE -1,
     keywords |-> <<>>, missing |-> <<>>, judge |-> "", retry_judge |-> "",
     outcome |-> "pending"]

\* note += f" | keywords {len(matched_terms)}/{len(topic_terms)}"
KeywordNote(base, topic_terms, matched_terms) ==
    [base EXCEPT !.keywords = <<Cardinality(matched_terms), Cardinality(topic_terms)>>]

\* Gates with the coverage gate ahead of the length gate.
GatesCoverageFirst(base, m, topic_terms, matched_terms) ==
    /\ output' = m.out
    /\ IF /\ topic_terms # {}
          /\ Cardinality(matched_terms) < RequiredMatches(topic_terms)
       THEN /\ attempt_log' =
                 Append(attempt_log,
                        [KeywordNote(base, topic_terms, matched_terms) EXCEPT
                           !.outcome = "insufficient topic coverage",
                           !.missing = MissingTerms(topic_terms, matched_terms)])
            /\ note' = NoNote
            /\ NextAttempt
       ELSE IF Len(m.out) < MinChars
       THEN /\ attempt_log' = Append(attempt_log, [base EXCEPT !.outcome = "too short"])
            /\ note' = NoNote
            /\ NextAttempt
       ELSE /\ note' = IF topic_terms # {}
                       THEN KeywordNote(base, topic_terms, matched_terms)
                       ELSE base
            /\ pc' = "judge"
            /\ UNCHANGED <<attempt_log, index>>

\* Gates that log nothing for an output under the minimum length.
GatesUnlogged(base, m, topic_terms, matched_terms) ==
    /\ output' = m.out
    /\ IF Len(m.out) < MinChars
       THEN /\ attempt_log' = attempt_log
            /\ note' = NoNote
            /\ NextAttempt
       ELSE IF /\ topic_terms # {}
               /\ Cardinality(matched_terms) < RequiredMatches(topic_terms)
       THEN /\ attempt_log' =
                 Append(attempt_log,
                        [KeywordNote(base, topic_terms, matched_terms) EXCEPT
                           !.outcome = "insufficient topic coverage",
                           !.missing = MissingTerms(topic_terms, matched_terms)])
            /\ note' = NoNote
            /\ NextAttempt
       ELSE /\ note' = IF topic_terms # {}
                       THEN KeywordNote(base, topic_terms, matched_terms)
                       ELSE base
            /\ pc' = "judge"
            /\ UNCHANGED <<attempt_log, index>>

\* The length gate and the topic-coverage gate on the measured output m.
Gates(base, m, topic_terms, matched_terms) ==
    /\ output' = m.out
    /\ IF Len(m.out) < MinChars
       THEN /\ attempt_log' = Append(attempt_log, [base EXCEPT !.outcome = "too short"])
            /\ note' = NoNote
            /\ NextAttempt
       ELSE IF /\ topic_terms # {}
               /\ Cardinality(matched_terms) < RequiredMatches(topic_terms)
       THEN /\ attempt_log' =
                 Append(attempt_log,
                        [KeywordNote(base, topic_terms, matched_terms) EXCEPT
                           !.outcome = "insufficient topic coverage",
                           !.missing = MissingTerms(topic_terms, matched_terms)])
            /\ note' = NoNote
            /\ NextAttempt
       ELSE /\ note' = IF topic_terms # {}
                       THEN KeywordNote(base, topic_terms, matched_terms)
                       ELSE base
            /\ pc' = "judge"
            /\ UNCHANGED <<attempt_log, index>>

\* The generation call of an attempt, with the attempt's options.
Attempt(max_tokens, temp, seed) ==
    \E raw \in GenerateOutputs(model, seed) :
        /\ calls' = Append(calls, Call("generate", model, seed, raw))
        /\ Gates(LengthNote(max_tokens, temp, seed, Measured(raw)), Measured(raw),
                 Keywords(scenario), Matched(scenario, raw))

\* Generate that also runs after a service error, as if the error were a rejection.
GenerateAfterError ==
    /\ test = "generation"
    /\ pc \in {"attempt", "error"}
    /\ Attempt(AttemptConfigs[index][1], AttemptConfigs[index][2],
               AttemptSeed(seed_base, index))
    /\ UNCHANGED <<inputs, auditVars, run, sIdx, mIdx, failure_log, success, last_judge_text,
                   judge_text, stabilized, attachments, verdicts>>

\* One attempt up to the judge: the generation call, the clean-up, the length gate
\* and the topic-coverage gate.
Generate ==
    /\ test = "generation"
    /\ pc = "attempt"
    /\ Attempt(AttemptConfigs[index][1], AttemptConfigs[index][2],
               AttemptSeed(seed_base, index))
    /\ UNCHANGED <<inputs, auditVars, run, sIdx, mIdx, failure_log, success, last_judge_text,
                   judge_text, stabilized, attachments, verdicts>>

\* Conclude without the "break": a pass moves on to the next attempt.
ConcludeNoBreak(judge_pass, note_with_judge, first_text) ==
    /\ attempt_log' = Append(attempt_log, note_with_judge)
    /\ note' = NoNote
    /\ IF judge_pass
       THEN /\ success' = TRUE
            /\ NextAttempt
            /\ UNCHANGED <<failure_log, attachments>>
       ELSE /\ failure_log' = Append(failure_log, note_with_judge)
            /\ attachments' =
                 attachments
                 \o <<Attach("failure_output", output)>>
                 \o (IF first_text # <<>> THEN <<Attach("attempt_judge_reason", first_text)>>
                     ELSE <<>>)
            /\ success' = success
            /\ NextAttempt

\* The end of an attempt that reached the judge: the record, the failure
\* attachments, and "break" on a pass. textwrap.shorten(output, width=800) is the
\* output itself: its whitespace is collapsed already and it has at most 500
\* characters.
Conclude(judge_pass, note_with_judge, first_text) ==
    /\ attempt_log' = Append(attempt_log, note_with_judge)
    /\ note' = NoNote
    /\ IF judge_pass
       THEN /\ success' = TRUE
            /\ pc' = "loop_end"
            /\ UNCHANGED <<index, failure_log, attachments>>
       ELSE /\ failure_log' = Append(failure_log, note_with_judge)
            /\ attachments' =
                 attachments
                 \o <<Attach("failure_output", output)>>
                 \o (IF first_text # <<>> THEN <<Attach("attempt_judge_reason", first_text)>>
                     ELSE <<>>)
            /\ success' = success
            /\ NextAttempt

\* The first judge call of an attempt; in offline mode, or on a pass, the attempt ends.
Judge ==
    /\ test = "generation"
    /\ pc = "judge"
    /\ LET seed == JudgeSeed(seed_base)
       IN \E text \in JudgeOutputs(output, seed) :
            LET judge_pass == JudgeVerdict(text)
                note_with_judge ==
                    [note EXCEPT !.judge = IF judge_pass THEN "PASS" ELSE "FAIL",
                                 !.outcome = "judged"]
            IN /\ calls' = Append(calls, Call("judge", JUDGE_MODEL, seed, text))
               /\ judge_text' = text
               /\ last_judge_text' = text
               /\ IF ~judge_pass /\ ~fake
                  THEN /\ note' = note_with_judge
                       /\ pc' = "retry"
                       /\ UNCHANGED <<index, attempt_log, failure_log, success, attachments>>
                  ELSE Conclude(judge_pass, note_with_judge, text)
    /\ UNCHANGED <<inputs, auditVars, run, sIdx, mIdx, output, stabilized, verdicts>>

\* RetryJudge that asks the judge again while it rejects.
RetryJudgeAgain ==
    /\ test = "generation"
    /\ pc = "retry"
    /\ LET seed == RetrySeed(seed_base)
       IN \E retry_text \in JudgeOutputs(output, seed) :
            LET retry_pass == JudgeVerdict(retry_text)
                note_with_judge ==
                    [note EXCEPT !.retry_judge = IF retry_pass THEN "PASS" ELSE "FAIL"]
            IN /\ calls' = Append(calls, Call("judge", JUDGE_MODEL, seed, retry_text))
               /\ last_judge_text' = IF retry_pass THEN retry_text ELSE last_judge_text
               /\ stabilized' = (retry_pass \/ stabilized)
               /\ IF retry_pass
                  THEN Conclude(retry_pass, note_with_judge, judge_text)
                  ELSE /\ pc' = "retry"
                       /\ UNCHANGED <<index, attempt_log, failure_log, success, attachments,
                                      note>>
    /\ UNCHANGED <<inputs, auditVars, run, sIdx, mIdx, output, judge_text, verdicts>>

\* RetryJudge whose passing re-evaluation does not count.
RetryJudgeIgnored ==
    /\ test = "generation"
    /\ pc = "retry"
    /\ LET seed == RetrySeed(seed_base)
       IN \E retry_text \in JudgeOutputs(output, seed) :
            LET retry_pass == JudgeVerdict(retry_text)
                note_with_judge ==
                    [note EXCEPT !.retry_judge = IF retry_pass THEN "PASS" ELSE "FAIL"]
            IN /\ calls' = Append(calls, Call("judge", JUDGE_MODEL, seed, retry_text))
               /\ last_judge_text' = last_judge_text
               /\ stabilized' = stabilized
               /\ Conclude(FALSE, note_with_judge, judge_text)
    /\ UNCHANGED <<inputs, auditVars, run, sIdx, mIdx, output, judge_text, verdicts>>

\* The re-evaluation after a rejection in live mode, and the attempt's end.
RetryJudge ==
    /\ test = "generation"
    /\ pc = "retry"
    /\ LET seed == RetrySeed(seed_base)
       IN \E retry_text \in JudgeOutputs(output, seed) :
            LET retry_pass == JudgeVerdict(retry_text)
                note_with_judge ==
                    [note EXCEPT !.retry_judge = IF retry_pass THEN "PASS" ELSE "FAIL"]
            IN /\ calls' = Append(calls, Call("judge", JUDGE_MODEL, seed, retry_text))
               /\ last_judge_text' = IF retry_pass THEN retry_text ELSE last_judge_text
               /\ stabilized' = (retry_pass \/ stabilized)
               /\ Conclude(retry_pass, note_with_judge, judge_text)
    /\ UNCHANGED <<inputs, auditVars, run, sIdx, mIdx, output, judge_text, verdicts>>

\* OllamaUnavailableError: the backend call of a generation or of a judge call
\* fails, and the exception ends the test.
BackendUnavailable ==
    /\ pc \in {"attempt", "judge", "retry", "iterate"}
    /\ ~fake
    /\ pc' = "error"
    /\ UNCHANGED <<inputs, auditVars, run, sIdx, mIdx, index, pairVars, verdicts>>

\* The Verdict of the pair that just ended.
Verdict ==
    [scenario |-> scenario, model |-> model, accepted |-> success,
     accepted_index |-> IF success THEN index ELSE 0,
     accepted_output |-> IF success THEN output ELSE <<>>,
     trace |-> attempt_log, stabilized |-> stabilized]

\* After the attempt loop: the hard failure with the trace attached, or the pair's
\* attachments and the next pair.
FinishPair ==
    /\ test = "generation"
    /\ pc = "loop_end"
    /\ verdicts' = IF genTable # <<>>
                   THEN [verdicts EXCEPT ![run] = Append(@, Verdict)]
                   ELSE verdicts
    /\ IF ~success
       THEN /\ attachments' =
                 attachments \o <<Attach("attempts", attempt_log),
                                  Attach("judge_reason", last_judge_text)>>
            /\ pc' = "failed"
            /\ UNCHANGED <<sIdx, mIdx>>
       ELSE /\ attachments' =
                 attachments
                 \o (IF stabilized /\ failure_log # <<>>
                     THEN <<Attach("recovered_failures", failure_log)>> ELSE <<>>)
                 \o <<Attach("output", output), Attach("lengths", attempt_log)>>
                 \o (IF last_judge_text # <<>>
                     THEN <<Attach("judge", last_judge_text)>> ELSE <<>>)
            /\ IF mIdx < Len(GENERATOR_MODELS)
               THEN /\ mIdx' = mIdx + 1
                    /\ sIdx' = sIdx
                    /\ pc' = "pair"
               ELSE IF sIdx < Len(scenarios)
               THEN /\ sIdx' = sIdx + 1
                    /\ mIdx' = 1
                    /\ pc' = "pair"
               ELSE /\ pc' = "passed"
                    /\ UNCHANGED <<sIdx, mIdx>>
    /\ UNCHANGED <<inputs, auditVars, run, index, attempt_log, failure_log, output, success,
                   last_judge_text, judge_text, stabilized, note, calls>>

\* The test function is run again from the start, against the same stub services.
Rerun ==
    /\ test = "generation"
    /\ genTable # <<>>
    /\ run = 1
    /\ pc \in {"passed", "failed", "skipped"}
    /\ run' = 2
    /\ pc' = "start"
    /\ UNCHANGED <<inputs, auditVars, sIdx, mIdx, index, pairVars, verdicts>>

\* ------------------------------------------------------------------ audit

\* seed_base = int(hashlib.md5(f"{scenario_id}::{model}::audit".encode()).hexdigest()[:8], 16)
AuditSeedBase(scenario_id, model_id) == Md5AuditSeedTable[scenario_id][model_id]

audit_seed_base == AuditSeedBase(scenario, model)

\* seed = seed_base + iteration
AuditSeed(base, k) == base + k

\* seed_override of the audit's judge call
AuditJudgeSeed(seed) == seed + AuditJudgeSeedOffset

\* A request to a service and its answer, with the pair and the iteration it is made for.
AuditCall(service, model_id, seed, answer) ==
    [service |-> service, model |-> model_id, seed |-> seed, answer |-> answer,
     scenario |-> scenario, generator |-> model, iteration |-> iteration]

\* A row whose length is the length before the trim.
AuditResultUntrimmed(m, coverage, judge_pass, text) ==
    [iteration |-> iteration, model |-> model, scenario_id |-> scenario,
     output |-> m.out, length |-> m.raw, topic_coverage |-> coverage,
     judge_pass |-> judge_pass, judge_reasoning |-> text, failure_reason |-> None]

\* AuditResult(..., failure_reason=None)
AuditResult(m, coverage, judge_pass, text) ==
    [iteration |-> iteration, model |-> model, scenario_id |-> scenario,
     output |-> m.out, length |-> Len(m.out), topic_coverage |-> coverage,
     judge_pass |-> judge_pass, judge_reasoning |-> text, failure_reason |-> None]

\* audit_result.failure_reason = assess_failure_reason(audit_result)
Assessed(result) ==
    [result EXCEPT !.failure_reason =
        assess_failure_reason(result, DefaultMinLength, DefaultMaxLength)]

\* iteration_detail, without the output preview
IterationDetail(result, seed) ==
    [model |-> result.model, scenario |-> result.scenario_id,
     iteration |-> result.iteration, seed |-> seed, length |-> result.length,
     topic_coverage |-> Permille(result.topic_coverage),
     judge_pass |-> result.judge_pass,
     failure_reason |-> IF result.failure_reason = None THEN <<"none">>
                        ELSE result.failure_reason]

\* The end of the iteration loop's body: the next iteration, scenario, or the summary.
NextIteration ==
    IF iteration < AUDIT_ITERATIONS
    THEN /\ iteration' = iteration + 1
         /\ sIdx' = sIdx
         /\ pc' = "iterate"
    ELSE IF sIdx < Len(scenarios)
    THEN /\ iteration' = 1
         /\ sIdx' = sIdx + 1
         /\ pc' = "iterate"
    ELSE /\ iteration' = iteration
         /\ sIdx' = sIdx
         /\ pc' = "summary"

\* Record with a re-evaluation of a rejected output, as the attempt controller makes.
RecordWithRetry(seed, raw, result) ==
    /\ audit_result' = result
    /\ model_results' = Append(model_results, result)
    /\ calls' = calls \o <<AuditCall("generate", model, seed, raw),
                           AuditCall("judge", JUDGE_MODEL, AuditJudgeSeed(seed),
                                     result.judge_reasoning)>>
                      \o (IF result.judge_pass THEN <<>>
                          ELSE <<AuditCall("judge", JUDGE_MODEL, AuditJudgeSeed(seed) + 1,
                                           result.judge_reasoning)>>)
    /\ attachments' =
         attachments
         \o <<Attach("iteration_detail", IterationDetail(result, seed))>>
         \o (IF result.failure_reason # None
             THEN <<Attach("FAILURE_output", result.output),
                    Attach("FAILURE_judge", result.judge_reasoning)>>
             ELSE <<>>)

\* The row of an iteration joins the model's rows and goes to the reporting sink.
Record(seed, raw, result) ==
    /\ audit_result' = result
    /\ model_results' = Append(model_results, result)
    /\ calls' = calls \o <<AuditCall("generate", model, seed, raw),
                           AuditCall("judge", JUDGE_MODEL, AuditJudgeSeed(seed),
                                     result.judge_reasoning)>>
    /\ attachments' =
         attachments
         \o <<Attach("iteration_detail", IterationDetail(result, seed))>>
         \o (IF result.failure_reason # None
             THEN <<Attach("FAILURE_output", result.output),
                    Attach("FAILURE_judge", result.judge_reasoning)>>
             ELSE <<>>)

\* One generation and one judge call, with the seeds of the iteration.
Iterate(seed) ==
    \E raw \in GenerateOutputs(model, seed) :
        \E text \in JudgeOutputs(Measured(raw).out, AuditJudgeSeed(seed)) :
            Record(seed, raw, Assessed(AuditResult(Measured(raw), Coverage(scenario, raw),
                                              JudgeVerdict(text), text)))

\* test_article_quality_audit_strict, up to the loops: the skips and the loading.
StartAudit ==
    /\ test = "audit"
    /\ pc = "start"
    /\ IF ~promptsExist \/ MissingModels # {}
       THEN pc' = "skipped"
       ELSE pc' = "model"
    /\ mIdx' = 1
    /\ sIdx' = 1
    /\ model_summaries' = <<>>
    /\ calls' = <<>>
    /\ attachments' = <<>>
    /\ UNCHANGED <<inputs, controllerVars, iteration, audit_result, model_results,
                   cautionary_models, failing_models, failure_message>>

\* The head of the model loop's body.
BeginModel ==
    /\ test = "audit"
    /\ pc = "model"
    /\ model_results' = <<>>
    /\ sIdx' = 1
    /\ iteration' = 1
    /\ pc' = IF scenarios = <<>> THEN "summary" ELSE "iterate"
    /\ UNCHANGED <<inputs, controllerVars, mIdx, calls, attachments, audit_result,
                   model_summaries, cautionary_models, failing_models, failure_message>>

\* One audit iteration: generation, clean-up, coverage, judge, failure reason.
AuditIteration ==
    /\ test = "audit"
    /\ pc = "iterate"
    /\ Iterate(AuditSeed(audit_seed_base, iteration))
    /\ NextIteration
    /\ UNCHANGED <<inputs, controllerVars, mIdx, model_summaries, cautionary_models,
                   failing_models, failure_message>>

\* The summary statistics of the model, after its scenarios.
Summarise ==
    /\ test = "audit"
    /\ pc = "summary"
    /\ model_summaries' = model_summaries @@ (model :> Summary(model, model_results))
    /\ IF mIdx < Len(GENERATOR_MODELS)
       THEN /\ mIdx' = mIdx + 1
            /\ pc' = "model"
       ELSE /\ mIdx' = mIdx
            /\ pc' = "report"
    /\ UNCHANGED <<inputs, controllerVars, sIdx, iteration, audit_result, model_results,
                   calls, attachments, cautionary_models, failing_models, failure_message>>

\* model_summaries.items(): the summaries in the order the models were audited
Items(summaries) ==
    [i \in 1..Len(GENERATOR_MODELS) |->
        <<GENERATOR_MODELS[i], summaries[GENERATOR_MODELS[i]]>>]

\* A failing model is one under the minimum success rate.
IsFailingLowRate(item) == Less(item[2].success_rate, MIN_ACCEPTABLE_SUCCESS_RATE)

\* if summary.successful_runs == 0
IsFailing(item) == item[2].successful_runs = 0

\* elif summary.success_rate < MIN_ACCEPTABLE_SUCCESS_RATE
IsCautionary(item) ==
    /\ ~IsFailing(item)
    /\ Less(item[2].success_rate, MIN_ACCEPTABLE_SUCCESS_RATE)

\* A model's part of the report; the order of the breakdown's lines is left out.
ReportEntry(item) ==
    [model |-> item[1],
     success_rate |-> Permille(item[2].success_rate),
     runs |-> <<item[2].successful_runs, item[2].total_runs>>,
     verdict |-> IF item[2].successful_runs = 0 THEN "No passing runs detected"
                 ELSE item[2].recommendation,
     breakdown |-> item[2].failures_by_reason]

\* A line of the cautionary attachment, and of the failure message.
CautionLine(item) ==
    <<item[1], Permille(item[2].success_rate), item[2].successful_runs, item[2].total_runs>>

FailureLine(item) == <<item[1], item[2].total_runs>>

Lines(items, Line(_)) == [i \in 1..Len(items) |-> Line(items[i])]

\* The report, the two lists, and the audit's verdict.
Conclusion(items, cautionary, failing) ==
    /\ cautionary_models' = cautionary
    /\ failing_models' = failing
    /\ attachments' =
         attachments
         \o <<Attach("quality_audit_report", Lines(items, ReportEntry)),
              Attach("quality_audit_summary_json", model_summaries)>>
         \o (IF cautionary # <<>>
             THEN <<Attach("llm_audit_cautionary_models", Lines(cautionary, CautionLine))>>
             ELSE <<>>)
    /\ IF failing # <<>>
       THEN /\ failure_message' = Lines(failing, FailureLine)
            /\ pc' = "failed"
       ELSE /\ failure_message' = failure_message
            /\ pc' = "passed"

\* After the model loop: the report and the pass/fail policy.
Report ==
    /\ test = "audit"
    /\ pc = "report"
    /\ Conclusion(Items(model_summaries),
                  SelectSeq(Items(model_summaries), IsCautionary),
                  SelectSeq(Items(model_summaries), IsFailing))
    /\ UNCHANGED <<inputs, controllerVars, sIdx, mIdx, iteration, audit_result,
                   model_results, model_summaries, calls>>

\* assess_failure_reason(audit_result), called on a row alone.
Assess ==
    /\ test = "assess"
    /\ pc = "assess"
    /\ audit_result' = Assessed(audit_result)
    /\ pc' = "assessed"
    /\ UNCHANGED <<inputs, controllerVars, sIdx, mIdx, iteration, model_results,
                   model_summaries, cautionary_models, failing_models, failure_message,
                   calls, attachments>>

\* generate_recommendation(summary), called on a summary alone.
Recommend ==
    /\ test = "recommend"
    /\ pc = "recommend"
    /\ model_summaries' =
         [m \in DOMAIN model_summaries |-> Recommended(model_summaries[m])]
    /\ pc' = "recommended"
    /\ UNCHANGED <<inputs, controllerVars, sIdx, mIdx, iteration, audit_result,
                   model_results, cautionary_models, failing_models, failure_message,
                   calls, attachments>>

\* ------------------------------------------------------------ specifications

\* The environment of a run. No backend is behind an offline run, and a live
\* backend's answer is not drawn from the prompt, so each mode varies what it reads.
TypeInputs ==
    /\ fake \in BOOLEAN
    /\ promptsExist \in BOOLEAN
    /\ installed \in (IF fake THEN {{}} ELSE SUBSET AllModels)
    /\ template \in (IF fake THEN Templates ELSE {"article"})
    /\ scenarios \in ScenarioLists

\* The state file of the server manager does not exist.
Absent == [exists |-> FALSE, servers |-> <<>>]

\* No script has run.
NoScript ==
    /\ config = <<>>
    /\ probes = <<>>
    /\ attempt = 0
    /\ sleeps = <<>>
    /\ backend = <<>>
    /\ requests = <<>>
    /\ created_users = <<>>
    /\ snapshot = <<>>
    /\ checks = <<>>
    /\ exit_code = "none"
    /\ state_file = Absent
    /\ processes = {}
    /\ signals = <<>>
    /\ cursor = 1
    /\ last_exc = 0
    /\ spawned = <<>>
    /\ invocations = <<>>

\* Nothing is given to a function called alone.
NoGiven ==
    /\ given_text = <<>>
    /\ given_topic = <<>>
    /\ given_limit = MaxChars

\* The loops and the bookkeeping before a test function starts.
Idle ==
    /\ run = 1
    /\ sIdx = 1
    /\ mIdx = 1
    /\ index = 1
    /\ attempt_log = <<>>
    /\ failure_log = <<>>
    /\ output = <<>>
    /\ success = FALSE
    /\ last_judge_text = <<>>
    /\ judge_text = <<>>
    /\ stabilized = FALSE
    /\ note = NoNote
    /\ calls = <<>>
    /\ attachments = <<>>
    /\ verdicts = <<<<>>, <<>>>>
    /\ iteration = 1
    /\ model_results = <<>>
    /\ model_summaries = <<>>
    /\ cautionary_models = <<>>
    /\ failing_models = <<>>
    /\ failure_message = <<>>

InitState ==
    /\ pc = "start"
    /\ audit_result = NoResult
    /\ NoGiven
    /\ NoScript
    /\ Idle

\* One run of test_local_article_generation against a live or an offline backend.
InitGeneration ==
    /\ test = "generation"
    /\ TypeInputs
    /\ genTable = <<>>
    /\ judgeTable = <<>>
    /\ InitState

\* One run of test_article_quality_audit_strict. The audit keeps every row, so its
\* live backend is a stub that answers each request from a table.
InitAudit ==
    /\ test = "audit"
    /\ TypeInputs
    /\ genTable \in (IF fake THEN {<<>>} ELSE [1..GenSlots -> Samples])
    /\ judgeTable \in (IF fake THEN {<<>>} ELSE [1..JudgeSlots -> JudgeTexts])
    /\ InitState

Init == InitGeneration \/ InitAudit

ControllerStep ==
    \/ StartTest
    \/ BeginPair
    \/ Generate
    \/ Judge
    \/ RetryJudge
    \/ FinishPair

AuditStep ==
    \/ StartAudit
    \/ BeginModel
    \/ AuditIteration
    \/ Summarise
    \/ Report

Next ==
    \/ ControllerStep
    \/ AuditStep
    \/ BackendUnavailable

Spec == Init /\ [][Next]_vars

\* Two runs of test_local_article_generation against the same deterministic stub
\* services: each answer is a function of the request.
InitDet ==
    /\ test = "generation"
    /\ fake = FALSE
    /\ promptsExist = TRUE
    /\ installed = AllModels
    /\ template = "article"
    /\ scenarios \in SubLists(ScenarioIds, 1) \ {<<>>}
    /\ genTable \in [1..GenSlots -> Samples]
    /\ judgeTable \in [1..JudgeSlots -> JudgeTexts]
    /\ InitState

NextDet ==
    \/ ControllerStep
    \/ Rerun

SpecDet == InitDet /\ [][NextDet]_vars

\* One run of test_local_article_generation over one scenario, of any of the
\* topics, with every model installed.
InitGate ==
    /\ test = "generation"
    /\ fake \in BOOLEAN
    /\ promptsExist = TRUE
    /\ installed = (IF fake THEN {} ELSE AllModels)
    /\ template \in (IF fake THEN Templates ELSE {"article"})
    /\ scenarios \in {<<sid>> : sid \in IdSet}
    /\ genTable = <<>>
    /\ judgeTable = <<>>
    /\ InitState

NextGate == ControllerStep

SpecGate == InitGate /\ [][NextGate]_vars

\* One offline run of either test with the article template, over one or two
\* scenarios of any of the topics.
InitOffline ==
    /\ test \in {"generation", "audit"}
    /\ fake = TRUE
    /\ promptsExist = TRUE
    /\ installed = {}
    /\ template = "article"
    /\ scenarios \in {<<a>> : a \in IdSet}
                       \cup {p \in IdSet \X IdSet : p[1] # p[2]}
    /\ genTable = <<>>
    /\ judgeTable = <<>>
    /\ InitState

\* The steps of an offline run: the re-evaluation belongs to live runs.
NextOffline ==
    \/ StartTest
    \/ BeginPair
    \/ Generate
    \/ Judge
    \/ FinishPair
    \/ AuditStep

SpecOffline == InitOffline /\ [][NextOffline]_vars

\* The lengths and the coverages of the rows given to assess_failure_reason.
Lengths ==
    {0} \cup ((DefaultMinLength - LengthSlack)..(DefaultMinLength + LengthSlack))
        \cup ((DefaultMaxLength - LengthSlack)..(DefaultMaxLength + LengthSlack))

Coverages == {q \in (0..MaxKeywords) \X (1..MaxKeywords) : q[1] <= q[2]}

\* A row of any length, coverage and judge verdict, not yet assessed.
InitReason ==
    /\ test = "assess"
    /\ pc = "assess"
    /\ fake = FALSE
    /\ promptsExist = TRUE
    /\ installed = AllModels
    /\ template = "article"
    /\ scenarios = <<>>
    /\ genTable = <<>>
    /\ judgeTable = <<>>
    /\ audit_result \in
         {[iteration |-> 1, model |-> GENERATOR_MODELS[1], scenario_id |-> ScenarioIds[1],
           output |-> <<>>, length |-> n, topic_coverage |-> q, judge_pass |-> j,
           judge_reasoning |-> <<>>, failure_reason |-> None] :
             n \in Lengths, q \in Coverages, j \in BOOLEAN}
    /\ NoGiven
    /\ NoScript
    /\ Idle

NextReason == Assess

SpecReason == InitReason /\ [][NextReason]_vars

\* ModelAuditSummary(...) for the counts of a model, before its recommendation.
CountedSummary(model_id, successful_runs, total_runs) ==
    [model |-> model_id,
     total_runs |-> total_runs,
     successful_runs |-> successful_runs,
     failed_runs |-> total_runs - successful_runs,
     success_rate |-> SuccessRate(successful_runs, total_runs),
     failures_by_reason |->
        IF total_runs = successful_runs THEN <<>>
        ELSE (<<"judge_rejected">> :> (total_runs - successful_runs)),
     recommendation |-> ""]

\* A summary of any counts, not yet given its recommendation.
InitTier ==
    /\ test = "recommend"
    /\ pc = "recommend"
    /\ fake = FALSE
    /\ promptsExist = TRUE
    /\ installed = AllModels
    /\ template = "article"
    /\ scenarios = <<>>
    /\ genTable = <<>>
    /\ judgeTable = <<>>
    /\ audit_result = NoResult
    /\ NoGiven
    /\ NoScript
    /\ run = 1
    /\ sIdx = 1
    /\ mIdx = 1
    /\ index = 1
    /\ attempt_log = <<>>
    /\ failure_log = <<>>
    /\ output = <<>>
    /\ success = FALSE
    /\ last_judge_text = <<>>
    /\ judge_text = <<>>
    /\ stabilized = FALSE
    /\ note = NoNote
    /\ calls = <<>>
    /\ attachments = <<>>
    /\ verdicts = <<<<>>, <<>>>>
    /\ iteration = 1
    /\ model_results = <<>>
    /\ cautionary_models = <<>>
    /\ failing_models = <<>>
    /\ failure_message = <<>>
    /\ \E m \in ModelSet, total \in 0..MaxRuns :
          \E successful \in 0..total :
              model_summaries = (m :> CountedSummary(m, successful, total))

NextTier == Recommend

SpecTier == InitTier /\ [][NextTier]_vars

\* The words of the topics given to calculate_topic_coverage: a capitalised word, the
\* same word in lower case, a word of three letters, two words joined by a digit.
TopicWords ==
    {<<"S", "o", "l", "a", "r">>, <<"s", "o", "l", "a", "r">>, <<"s", "u", "n">>,
     <<"w", "i", "n", "d", "2", "t", "i", "d", "e">>}

\* The words of the outputs given to calculate_topic_coverage: a topic word in
\* capitals, a word that holds a topic word, a topic word, a word of three letters.
TextWords ==
    {<<"S", "O", "L", "A", "R">>, <<"s", "w", "i", "n", "d", "s">>,
     <<"t", "i", "d", "e">>, <<"s", "u", "n">>}

RECURSIVE JoinWords(_)
\* " ".join(words)
JoinWords(words) ==
    IF words = <<>> THEN <<>>
    ELSE IF Len(words) = 1 THEN words[1]
    ELSE words[1] \o <<" ">> \o JoinWords(Tail(words))

\* The texts of at most n words of the pool.
Phrases(pool, n) == {JoinWords(words) : words \in UNION {[1..k -> pool] : k \in 0..n}}

\* calculate_topic_coverage(output, topic) called alone.
Cover ==
    /\ test = "coverage"
    /\ pc = "given"
    /\ audit_result' =
         [iteration |-> 0,
          topic_coverage |-> calculate_topic_coverage(given_text, given_topic)]
    /\ pc' = "covered"
    /\ UNCHANGED <<inputs, controllerVars, sIdx, mIdx, iteration, model_results,
                   model_summaries, cautionary_models, failing_models, failure_message,
                   calls, attachments>>

\* An output and a topic of a few words, the empty ones among them.
InitCover ==
    /\ test = "coverage"
    /\ pc = "given"
    /\ fake = FALSE
    /\ promptsExist = TRUE
    /\ installed = AllModels
    /\ template = "article"
    /\ scenarios = <<>>
    /\ genTable = <<>>
    /\ judgeTable = <<>>
    /\ audit_result = NoResult
    /\ given_text \in Phrases(TextWords, MaxTextWords)
    /\ given_topic \in Phrases(TopicWords, MaxTopicWords)
    /\ given_limit = MaxChars
    /\ NoScript
    /\ Idle

NextCover == Cover

SpecCover == InitCover /\ [][NextCover]_vars

\* The characters of the short raw outputs: a letter, a space, a dash, a newline.
RawChars == {"a", " ", "-", "\n"}

\* The short raw outputs: every text of at most MaxRawLen of these characters.
ShortRaws == UNION {[1..n -> RawChars] : n \in 0..MaxRawLen}

\* A raw output of one word that is longer than the limit of the tests.
LongWord == Text([i \in 1..(MaxChars + 1) |-> "a"])

\* Lines 73-85 of the controller, 160-171 of the audit, applied to a raw output.
NormalizeText ==
    /\ test = "normalize"
    /\ pc = "given"
    /\ output' = Normalize(given_text, given_limit)
    /\ pc' = "normalized"
    /\ UNCHANGED <<inputs, auditVars, run, sIdx, mIdx, index, attempt_log, failure_log,
                   success, last_judge_text, judge_text, stabilized, note, calls,
                   attachments, verdicts>>

\* The same lines applied to the output they produced.
NormalizeAgain ==
    /\ test = "normalize"
    /\ pc = "normalized"
    /\ output' = Normalize(output, given_limit)
    /\ pc' = "renormalized"
    /\ UNCHANGED <<inputs, auditVars, run, sIdx, mIdx, index, attempt_log, failure_log,
                   success, last_judge_text, judge_text, stabilized, note, calls,
                   attachments, verdicts>>

\* A short raw output with a small limit, or a raw output of the size the services
\* return with the limit of the tests.
InitNorm ==
    /\ test = "normalize"
    /\ pc = "given"
    /\ fake = FALSE
    /\ promptsExist = TRUE
    /\ installed = AllModels
    /\ template = "article"
    /\ scenarios = <<>>
    /\ genTable = <<>>
    /\ judgeTable = <<>>
    /\ audit_result = NoResult
    /\ \/ given_text \in ShortRaws /\ given_limit \in 0..MaxLimit
       \/ given_text \in Samples \cup {LongWord} /\ given_limit = MaxChars
    /\ given_topic = <<>>
    /\ NoScript
    /\ Idle

NextNorm ==
    \/ NormalizeText
    \/ NormalizeAgain

SpecNorm == InitNorm /\ [][NextNorm]_vars

\* ------------------------------------ the controller's gates and the audit's row

\* The controller's gates on the given output, as the last attempt of the pair.
GateOutput ==
    /\ test = "agree"
    /\ pc = "attempt"
    /\ Gates(LengthNote(AttemptConfigs[index][1], AttemptConfigs[index][2],
                        AttemptSeed(seed_base, index), Measured(given_text)),
             Measured(given_text), Keywords(scenario), Matched(scenario, given_text))
    /\ UNCHANGED <<inputs, auditVars, run, sIdx, mIdx, failure_log, success,
                   last_judge_text, judge_text, stabilized, calls, attachments, verdicts>>

\* The controller's first judge call, answered with the given judge text: the attempt
\* is accepted without stabilization when the verdict is a pass.
FirstVerdict ==
    /\ test = "agree"
    /\ pc = "judge"
    /\ success' = JudgeVerdict(judge_text)
    /\ pc' = "gated"
    /\ UNCHANGED <<inputs, auditVars, run, sIdx, mIdx, index, attempt_log, failure_log,
                   output, last_judge_text, judge_text, stabilized, note, calls, attachments,
                   verdicts>>

\* The audit's row for the same output and the same judge text.
ClassifyOutput ==
    /\ test = "agree"
    /\ pc \in {"gated", "loop_end"}
    /\ audit_result' =
          Assessed(AuditResult(Measured(given_text), Coverage(scenario, given_text),
                               JudgeVerdict(judge_text), judge_text))
    /\ pc' = "compared"
    /\ UNCHANGED <<inputs, controllerVars, sIdx, mIdx, iteration, model_results,
                   model_summaries, cautionary_models, failing_models, failure_message,
                   calls, attachments>>

\* Any answer of a generation service for any topic, and any answer of the judge.
InitAgree ==
    /\ test = "agree"
    /\ pc = "attempt"
    /\ fake = FALSE
    /\ promptsExist = TRUE
    /\ installed = AllModels
    /\ template = "article"
    /\ scenarios \in {<<sid>> : sid \in IdSet}
    /\ genTable = <<>>
    /\ judgeTable = <<>>
    /\ audit_result = NoResult
    /\ given_text \in Answers
    /\ given_topic = <<>>
    /\ given_limit = MaxChars
    /\ NoScript
    /\ run = 1
    /\ sIdx = 1
    /\ mIdx = 1
    /\ index = Len(LiveAttemptConfigs)
    /\ attempt_log = <<>>
    /\ failure_log = <<>>
    /\ output = <<>>
    /\ success = FALSE
    /\ last_judge_text = <<>>
    /\ judge_text \in JudgeTexts
    /\ stabilized = FALSE
    /\ note = NoNote
    /\ calls = <<>>
    /\ attachments = <<>>
    /\ verdicts = <<<<>>, <<>>>>
    /\ iteration = 1
    /\ model_results = <<>>
    /\ model_summaries = <<>>
    /\ cautionary_models = <<>>
    /\ failing_models = <<>>
    /\ failure_message = <<>>

NextAgree == GateOutput \/ FirstVerdict \/ ClassifyOutput

SpecAgree == InitAgree /\ [][NextAgree]_vars

\* ----------------------------------------------- evaluate_with_judge alone

\* What may precede the first token of a judge's answer.
JudgeLead == {<<>>, <<" ">>, <<"\n">>}

\* The first token of a judge's answer.
JudgeTokens ==
    {<<>>, <<"P","A","S","S">>, <<"p","a","s","s">>, <<"P","a","s","s">>, <<"P","A","S","S",".">>, <<"P","A","S","S",":">>, <<"F","A","I","L">>, <<"P","A","S","S","E","D">>, <<"P","A","S">>}

\* What may follow the first token.
JudgeRest == {<<>>, <<" ","o","k">>, <<"\n","w","h","y">>, <<"\t">>, <<" ","F","A","I","L","\n">>}

\* The answers of a live judge model: result.output of evaluate_with_judge.
JudgeRaws == {a \o b \o c : a \in JudgeLead, b \in JudgeTokens, c \in JudgeRest}

\* evaluate_with_judge with a live service that answered given_text: the verdict and
\* the text it returns.
EvaluateWithJudge ==
    /\ test = "judge"
    /\ pc = "given"
    /\ pc' = "judged"
    /\ success' = JudgeVerdict(given_text)
    /\ judge_text' = Strip(given_text)
    /\ UNCHANGED <<inputs, run, sIdx, mIdx, index, attempt_log, failure_log, output,
                   last_judge_text, stabilized, note, calls, attachments, verdicts,
                   auditVars>>

\* Any answer of a live judge model, before evaluate_with_judge reads it.
InitJudge ==
    /\ test = "judge"
    /\ pc = "given"
    /\ fake = FALSE
    /\ promptsExist = TRUE
    /\ installed = AllModels
    /\ template = "article"
    /\ scenarios = <<>>
    /\ genTable = <<>>
    /\ judgeTable = <<>>
    /\ audit_result = NoResult
    /\ given_text \in JudgeRaws
    /\ given_topic = <<>>
    /\ given_limit = MaxChars
    /\ NoScript
    /\ Idle

NextJudge == EvaluateWithJudge

SpecJudge == InitJudge /\ [][NextJudge]_vars

\* ------------------------------------------------------------ seed_demo_data

Digits == {"0", "1", "2", "3", "4", "5", "6", "7", "8", "9"}

\* The regex class [a-zA-Z0-9].
AlnumSet == AlphaSet \cup Digits

\* re.sub(r"[^a-zA-Z0-9]+", "-", s): each maximal run of other characters becomes
\* one dash.
DashOthers(s) ==
    LET marked == [i \in 1..Len(s) |->
            IF s[i] \in AlnumSet THEN s[i]
            ELSE IF i > 1 /\ s[i - 1] \notin AlnumSet THEN DROP ELSE "-"]
    IN SelectSeq(marked, Keep)

\* re.sub(r"-+", "-", s)
SingleDashes(s) ==
    LET marked == [i \in 1..Len(s) |->
            IF s[i] = "-" /\ i > 1 /\ s[i - 1] = "-" THEN DROP ELSE s[i]]
    IN SelectSeq(marked, Keep)

NotDashAt(s, i) == s[i] # "-"

\* str.strip("-")
StripDashes(s) ==
    LET ix == IndicesOf(s, NotDashAt)
    IN IF ix = <<>> THEN <<>> ELSE SubSeq(s, ix[1], ix[Len(ix)])

\* The slug of a title that yields none.
DefaultSlug == <<"a","r","t","i","c","l","e">>

\* A slug that keeps the title's capitals.
SlugifyCased(title) ==
    LET slug == StripDashes(SingleDashes(DashOthers(Strip(title))))
    IN IF slug = <<>> THEN DefaultSlug ELSE slug

\* slugify: the slug ensure_article asks the demo application for.
slugify(title) ==
    LET slug == StripDashes(SingleDashes(DashOthers(ToLower(Strip(title)))))
    IN IF slug = <<>> THEN DefaultSlug ELSE slug

\* The slug the demo application files an article under. The application is not part
\* of the repository; it is taken to follow its title as ensure_article expects of it
\* ("check by slug and update if present"): the title's letters and digits in lower
\* case, each run of other characters between two of them being one dash.
ArticleSlug(title) ==
    LET low == ToLower(title)
        marked == [i \in 1..Len(low) |->
            IF low[i] \in AlnumSet THEN low[i]
            ELSE IF /\ i < Len(low)
                    /\ low[i + 1] \in AlnumSet
                    /\ \E j \in 1..(i - 1) : low[j] \in AlnumSet
                 THEN "-" ELSE DROP]
        kept == SelectSeq(marked, Keep)
    IN IF kept = <<>> THEN DefaultSlug ELSE kept

\* SEED_RETRIES is at most this.
MaxRetries == 2

\* The seed bundle holds at most this many users.
MaxSeedUsers == 2

\* The seed bundle holds at most this many articles.
MaxSeedArticles == 2

\* SEED_BACKOFF, as a whole number of seconds.
SeedBackoff == 2

\* What a probe of the health endpoint meets: an answer below 500, an answer of 500
\* or above, or an exception of requests.get.
ProbeOutcomes == {"ok", "unavailable", "raise"}

RECURSIVE ListsOver(_, _)
\* The lists of at most n members of pool.
ListsOver(pool, n) ==
    IF n = 0 THEN {<<>>}
    ELSE {<<>>} \cup {<<e>> \o l : e \in pool, l \in ListsOver(pool, n - 1)}

\* The users of a seed bundle: with a bio or without one.
UserPool ==
    {[username |-> "alice", bio |-> ""],
     [username |-> "bob", bio |-> "hi"],
     [username |-> "alice", bio |-> "hi"]}

\* The articles of a seed bundle. The first two titles have one slug, and so have the
\* last two.
ArticlePool ==
    {[title |-> <<"H","e","l","l","o"," ","W","o","r","l","d">>, body |-> "x"],
     [title |-> <<" ","h","e","l","l","o","-","-","w","o","r","l","d","!"," ">>, body |-> "y"],
     [title |-> <<"T","e","a"," ","4"," ","T","w","o">>, body |-> "x"],
     [title |-> <<"!","!","!">>, body |-> "x"],
     [title |-> <<"A","r","t","i","c","l","e">>, body |-> "y"]}

\* main's built-in sample, used when seed.json is absent.
BuiltInSample ==
    [users |-> <<[username |-> "alice", bio |-> ""], [username |-> "bob", bio |-> ""]>>,
     articles |-> <<[title |-> <<"H","e","l","l","o"," ","W","o","r","l","d">>, body |-> "Sample article"]>>]

Bundles ==
    {[users |-> us, articles |-> as] :
        us \in ListsOver(UserPool, MaxSeedUsers),
        as \in ListsOver(ArticlePool, MaxSeedArticles)}

\* A demo application nobody has used.
EmptyBackend == [users |-> <<>>, articles |-> <<>>]

\* A demo application that was used before: alice is registered, and an article is
\* filed under a slug of the pool with another body.
UsedBackend ==
    [users |-> ("alice" :> "old"),
     articles |-> (ArticleSlug(<<"H","e","l","l","o"," ","W","o","r","l","d">>) :> [title |-> <<"H","e","l","l","o"," ","W","o","r","l","d">>, body |-> "old"])]

\* A request of the script and the status it was answered with.
Request(method, path, key, status) ==
    [run |-> run, method |-> method, path |-> path, key |-> key, status |-> status]

\* What the seed script leaves alone: the state of the test functions.
testVars ==
    <<fake, promptsExist, installed, template, scenarios, genTable, judgeTable,
      given_text, given_topic, given_limit, sIdx, mIdx, index, verdicts, pairVars,
      auditVars>>

\* What the seed script leaves alone of the other scripts.
otherScripts == <<checks, state_file, processes, signals, last_exc, spawned, invocations>>

\* main up to the call of _wait_for_backend: the env file and API_BASE_URL.
SeedStart ==
    /\ test = "seed"
    /\ pc = "start"
    /\ IF ~config.env_file \/ ~config.base_url
       THEN /\ pc' = "done"
            /\ exit_code' = "2"
            /\ UNCHANGED attempt
       ELSE /\ pc' = "wait"
            /\ attempt' = 1
            /\ UNCHANGED exit_code
    /\ UNCHANGED <<test, run, config, probes, sleeps, backend, requests, created_users,
                   snapshot, cursor, otherScripts, testVars>>

\* _wait_for_backend: one turn of its loop, or the loop's end, after which the
\* function returns and main goes on to the users.
WaitForBackend ==
    /\ test = "seed"
    /\ pc = "wait"
    /\ IF attempt > config.retries \/ probes[attempt] = "ok"
       THEN /\ pc' = "users"
            /\ cursor' = 1
            /\ UNCHANGED <<attempt, sleeps, exit_code>>
       ELSE IF probes[attempt] = "raise" /\ attempt = config.retries
       THEN /\ pc' = "raised"
            /\ exit_code' = "RuntimeError"
            /\ UNCHANGED <<attempt, sleeps, cursor>>
       ELSE /\ sleeps' = Append(sleeps, config.backoff * attempt)
            /\ attempt' = attempt + 1
            /\ UNCHANGED <<pc, cursor, exit_code>>
    /\ UNCHANGED <<test, run, config, probes, backend, requests, created_users, snapshot,
                   otherScripts, testVars>>

\* The demo application's users after POST /users for name: a new user has no bio.
Registered(name) ==
    IF name \in DOMAIN backend.users THEN backend.users ELSE (name :> "") @@ backend.users

\* register_user, with login_user when the user exists: the requests it sends.
RegisterRequests(name) ==
    IF name \in DOMAIN backend.users
    THEN <<Request("POST", "/users", name, 422), Request("POST", "/users/login", name, 200)>>
    ELSE <<Request("POST", "/users", name, 201)>>

\* ensure_profile: the request it sends, none without a bio.
ProfileRequests(user) ==
    IF user.bio = "" THEN <<>> ELSE <<Request("PUT", "/user", user.username, 200)>>

\* One turn of main's loop over the users: register_user, created_users and
\* ensure_profile. The demo application answers every request, so that _with_retry
\* calls each function once.
SeedUser ==
    /\ test = "seed"
    /\ pc = "users"
    /\ cursor <= Len(config.sample.users)
    /\ LET user == config.sample.users[cursor]
       IN /\ requests' = requests \o RegisterRequests(user.username) \o ProfileRequests(user)
          /\ backend' = [backend EXCEPT !.users =
                IF user.bio = "" THEN Registered(user.username)
                ELSE (user.username :> user.bio) @@ Registered(user.username)]
          /\ created_users' =
                IF \E k \in 1..Len(created_users) : created_users[k] = user.username
                THEN created_users
                ELSE Append(created_users, user.username)
    /\ cursor' = cursor + 1
    /\ UNCHANGED <<test, pc, run, config, probes, attempt, sleeps, snapshot, exit_code,
                   otherScripts, testVars>>

\* The end of the loop over the users: the author is the first user created.
SeedAuthor ==
    /\ test = "seed"
    /\ pc = "users"
    /\ cursor > Len(config.sample.users)
    /\ IF created_users = <<>>
       THEN /\ pc' = "done"
            /\ exit_code' = "1"
            /\ UNCHANGED cursor
       ELSE /\ pc' = "articles"
            /\ cursor' = 1
            /\ UNCHANGED exit_code
    /\ UNCHANGED <<test, run, config, probes, attempt, sleeps, backend, requests,
                   created_users, snapshot, otherScripts, testVars>>

\* The demo application's articles after a PUT of title and body to the article at
\* slug: the article moves to the slug of its new title.
Updated(slug, title, body) ==
    LET rest == [k \in DOMAIN backend.articles \ {slug} |-> backend.articles[k]]
    IN (ArticleSlug(title) :> [title |-> title, body |-> body]) @@ rest

\* The demo application's articles after a POST of title and body.
Created(title, body) ==
    (ArticleSlug(title) :> [title |-> title, body |-> body]) @@ backend.articles

\* ensure_article, one turn of main's loop over the articles: GET by slug, then PUT
\* when the answer is 200 and POST otherwise. The demo application refuses to file a
\* second article under a slug (422), and raise_for_status ends the script.
SeedArticle ==
    /\ test = "seed"
    /\ pc = "articles"
    /\ cursor <= Len(config.sample.articles)
    /\ LET article == config.sample.articles[cursor]
           slug == slugify(article.title)
       IN IF slug \in DOMAIN backend.articles
          THEN /\ requests' = requests \o
                    <<Request("GET", "/articles/{slug}", slug, 200),
                      Request("PUT", "/articles/{slug}", slug, 200)>>
               /\ backend' = [backend EXCEPT
                                !.articles = Updated(slug, article.title, article.body)]
               /\ cursor' = cursor + 1
               /\ UNCHANGED <<pc, exit_code>>
          ELSE IF ArticleSlug(article.title) \in DOMAIN backend.articles
          THEN /\ requests' = requests \o
                    <<Request("GET", "/articles/{slug}", slug, 404),
                      Request("POST", "/articles", slug, 422)>>
               /\ pc' = "raised"
               /\ exit_code' = "HTTPError"
               /\ UNCHANGED <<backend, cursor>>
          ELSE /\ requests' = requests \o
                    <<Request("GET", "/articles/{slug}", slug, 404),
                      Request("POST", "/articles", slug, 201)>>
               /\ backend' = [backend EXCEPT
                                !.articles = Created(article.title, article.body)]
               /\ cursor' = cursor + 1
               /\ UNCHANGED <<pc, exit_code>>
    /\ UNCHANGED <<test, run, config, probes, attempt, sleeps, created_users, snapshot,
                   otherScripts, testVars>>

\* The end of the loop over the articles: "Seeding complete", return 0.
SeedComplete ==
    /\ test = "seed"
    /\ pc = "articles"
    /\ cursor > Len(config.sample.articles)
    /\ pc' = "done"
    /\ exit_code' = "0"
    /\ UNCHANGED <<test, run, config, probes, attempt, sleeps, backend, requests,
                   created_users, snapshot, cursor, otherScripts, testVars>>

\* The script is run again against the demo application as the first run left it.
SeedAgain ==
    /\ test = "seed"
    /\ pc = "done"
    /\ exit_code = "0"
    /\ run = 1
    /\ run' = 2
    /\ snapshot' = backend
    /\ pc' = "start"
    /\ exit_code' = "none"
    /\ attempt' = 0
    /\ created_users' = <<>>
    /\ cursor' = 1
    /\ UNCHANGED <<test, config, probes, sleeps, backend, requests, otherScripts,
                   testVars>>

\* The test functions do not run.
NoTest ==
    /\ fake = FALSE
    /\ promptsExist = TRUE
    /\ installed = {}
    /\ template = "article"
    /\ scenarios = <<>>
    /\ genTable = <<>>
    /\ judgeTable = <<>>
    /\ audit_result = NoResult
    /\ NoGiven
    /\ Idle

\* The seed script before it runs: any bundle against a demo application that
\* answers the first probe, or the built-in sample behind any probes and with or
\* without its configuration.
InitSeed ==
    /\ test = "seed"
    /\ pc = "start"
    /\ NoTest
    /\ backend \in {EmptyBackend, UsedBackend}
    /\ \/ /\ probes = <<"ok">>
          /\ config \in {[env_file |-> TRUE, base_url |-> TRUE, retries |-> 1,
                          backoff |-> SeedBackoff, sample |-> b] : b \in Bundles}
       \/ /\ probes \in ListsOver(ProbeOutcomes, MaxRetries)
          /\ config \in {[env_file |-> e, base_url |-> u, retries |-> Len(probes),
                          backoff |-> SeedBackoff, sample |-> BuiltInSample] :
                            e \in BOOLEAN, u \in BOOLEAN}
    /\ attempt = 0
    /\ sleeps = <<>>
    /\ requests = <<>>
    /\ created_users = <<>>
    /\ snapshot = EmptyBackend
    /\ cursor = 1
    /\ exit_code = "none"
    /\ checks = <<>>
    /\ state_file = Absent
    /\ processes = {}
    /\ signals = <<>>
    /\ last_exc = 0
    /\ spawned = <<>>
    /\ invocations = <<>>

NextSeed ==
    \/ SeedStart
    \/ WaitForBackend
    \/ SeedUser
    \/ SeedAuthor
    \/ SeedArticle
    \/ SeedComplete
    \/ SeedAgain

SpecSeed == InitSeed /\ [][NextSeed]_vars

\* -------------------------------------------------------------- health_check

\* _retry_with_backoff called alone is given at most this many retries.
MaxTries == 5

\* The retries, the backoff and the max_backoff of the three checks.
CheckRetries == 5

CheckBackoff == 1

DefaultMaxBackoff == 10

\* The outcomes of the calls of a wrapped function: it returns ("ok") or it raises.
CallOutcomes == {"ok", "raise"}

RECURSIVE OutcomeLists(_)
\* The outcomes of n calls.
OutcomeLists(n) ==
    IF n = 0 THEN {<<>>}
    ELSE {<<o>> \o l : o \in CallOutcomes, l \in OutcomeLists(n - 1)}

\* n calls of which the first k raise.
FailsFirst(k, n) == [j \in 1..n |-> IF j <= k THEN "raise" ELSE "ok"]

\* The checks main runs, in order.
CheckNames ==
    <<"backend_api", "database_via_api">>
    \o (IF ~config.skip_frontend /\ config.frontend_url THEN <<"frontend">> ELSE <<>>)

\* A wait that is not capped by max_backoff.
WaitUncapped(k) == config.backoff * (2 ^ (k - 1))

\* wait = min(backoff * (2 ** (attempt - 1)), max_backoff)
Wait(k) ==
    IF config.backoff * (2 ^ (k - 1)) < config.max_backoff
    THEN config.backoff * (2 ^ (k - 1))
    ELSE config.max_backoff

\* CheckResult, the elapsed time apart: detail comes from the value or from the
\* exception of a call of the wrapped function.
CheckResult(name, ok, call) == [name |-> name, success |-> ok, detail |-> call]

\* What the script leaves alone of the other scripts.
healthRest ==
    <<backend, created_users, snapshot, state_file, processes, signals, spawned,
      invocations>>

\* The wrapper returned or raised. Called alone, that is the end; inside a check, the
\* except clause of the check turns it into a CheckResult and main goes on.
Ended(ok) ==
    IF test = "retry"
    THEN /\ pc' = (IF ok THEN "returned" ELSE "raised")
         /\ UNCHANGED <<checks, cursor, attempt>>
    ELSE /\ checks' = Append(checks, CheckResult(CheckNames[cursor], ok, attempt))
         /\ cursor' = cursor + 1
         /\ attempt' = 1
         /\ pc' = (IF cursor + 1 > Len(CheckNames) THEN "report" ELSE "call")

\* _retry_with_backoff: one turn of its loop (a call of the wrapped function and what
\* follows it), or the end of a loop of no turn.
RetryWithBackoff ==
    /\ test \in {"retry", "health"}
    /\ pc = "call"
    /\ IF attempt > config.retries
       THEN /\ Ended(TRUE)
            /\ UNCHANGED <<requests, sleeps, last_exc>>
       ELSE /\ requests' = Append(requests, [check |-> cursor, call |-> attempt])
            /\ IF probes[cursor][attempt] = "ok"
               THEN /\ Ended(TRUE)
                    /\ last_exc' = (IF test = "retry" THEN last_exc ELSE 0)
                    /\ UNCHANGED sleeps
               ELSE IF attempt < config.retries
               THEN /\ last_exc' = attempt
                    /\ sleeps' = Append(sleeps, Wait(attempt))
                    /\ attempt' = attempt + 1
                    /\ UNCHANGED <<pc, checks, cursor>>
               ELSE /\ last_exc' = (IF test = "retry" THEN attempt ELSE 0)
                    /\ Ended(FALSE)
                    /\ UNCHANGED sleeps
    /\ UNCHANGED <<test, run, config, probes, exit_code, healthRest, testVars>>

\* main up to the first check: the env file and API_BASE_URL.
HealthStart ==
    /\ test = "health"
    /\ pc = "start"
    /\ IF ~config.env_file \/ ~config.base_url
       THEN /\ pc' = "done"
            /\ exit_code' = "1"
       ELSE /\ pc' = "call"
            /\ UNCHANGED exit_code
    /\ UNCHANGED <<test, run, config, probes, attempt, sleeps, requests, checks, cursor,
                   last_exc, healthRest, testVars>>

\* main after the checks: failed, and the exit code.
HealthReport ==
    /\ test = "health"
    /\ pc = "report"
    /\ pc' = "done"
    /\ exit_code' = (IF \E k \in 1..Len(checks) : ~checks[k].success THEN "1" ELSE "0")
    /\ UNCHANGED <<test, run, config, probes, attempt, sleeps, requests, checks, cursor,
                   last_exc, healthRest, testVars>>

\* The backoffs and the caps _retry_with_backoff is called with alone.
Backoffs == {1, 3}

MaxBackoffs == {4, DefaultMaxBackoff}

\* _retry_with_backoff called alone with any parameters, or main of health_check.py
\* with any configuration, each check's probe failing some number of times.
InitHealth ==
    /\ NoTest
    /\ \/ /\ test = "retry"
          /\ \E r \in 0..MaxTries : probes \in {<<l>> : l \in OutcomeLists(r)}
          /\ config \in {[retries |-> Len(probes[1]), backoff |-> b, max_backoff |-> m] :
                            b \in Backoffs, m \in MaxBackoffs}
       \/ /\ test = "health"
          /\ probes \in {<<FailsFirst(a, CheckRetries), FailsFirst(b, CheckRetries),
                           FailsFirst(c, CheckRetries)>> :
                            a \in 0..CheckRetries, b \in {0, 2, CheckRetries},
                            c \in {0, CheckRetries}}
          /\ config \in {[env_file |-> e, base_url |-> u, skip_frontend |-> s,
                          frontend_url |-> f, retries |-> CheckRetries,
                          backoff |-> CheckBackoff, max_backoff |-> DefaultMaxBackoff] :
                            e \in BOOLEAN, u \in BOOLEAN, s \in BOOLEAN, f \in BOOLEAN}
    /\ pc = (IF test = "retry" THEN "call" ELSE "start")
    /\ attempt = 1
    /\ sleeps = <<>>
    /\ requests = <<>>
    /\ checks = <<>>
    /\ cursor = 1
    /\ last_exc = 0
    /\ exit_code = "none"
    /\ backend = <<>>
    /\ created_users = <<>>
    /\ snapshot = <<>>
    /\ state_file = Absent
    /\ processes = {}
    /\ signals = <<>>
    /\ spawned = <<>>
    /\ invocations = <<>>

NextHealth == RetryWithBackoff \/ HealthStart \/ HealthReport

SpecHealth == InitHealth /\ [][NextHealth]_vars

\* ------------------------------------------------------- manage_demo_servers

\* The manager is invoked at most this many times.
MaxInvocations == 3

\* A state file that exists and records nothing: {} or text that is not JSON, for
\* which read_state returns {}.
Blank == [exists |-> TRUE, servers |-> <<>>]

\* write_state(state) after both servers were spawned.
Written(backend_pid, frontend_pid) ==
    [exists |-> TRUE, servers |-> ("backend" :> backend_pid) @@ ("frontend" :> frontend_pid)]

\* The pids a state file records, in the order of its items.
RecordedPids(file) ==
    IF file.servers = <<>> THEN <<>>
    ELSE <<file.servers["backend"], file.servers["frontend"]>>

RECURSIVE Ascending(_)
\* The members of a set of pids in increasing order.
Ascending(pids) ==
    IF pids = {} THEN <<>>
    ELSE LET least == CHOOSE x \in pids : \A y \in pids : x <= y
         IN <<least>> \o Ascending(pids \ {least})

\* os.kill(pid, sig) for each pid of the list.
Kills(pid_list, sig) == [k \in 1..Len(pid_list) |-> [pid |-> pid_list[k], sig |-> sig]]

\* The running processes that listen on the port of the server called name.
Listeners(name) == {q \in processes : spawned[q].name = name}

\* ensure_port_available: SIGTERM to each listener, then SIGKILL to those that are
\* still there after the grace period.
PortKills(name, stubborn) ==
    Kills(Ascending(Listeners(name)), "SIGTERM")
    \o Kills(Ascending(Listeners(name) \cap stubborn), "SIGKILL")

\* A stop that removes the state file whatever it records.
StopRemoving(file, running, survivors) ==
    [signals |-> Kills(RecordedPids(file), "SIGTERM"),
     processes |-> running \ ({file.servers[n] : n \in DOMAIN file.servers} \ survivors),
     state_file |-> Absent]

\* stop(): with nothing recorded it returns; otherwise SIGTERM to each recorded pid, a
\* wait of ten seconds at most, and remove_state. survivors are the processes that
\* are still running when the wait is over.
StopOutcome(file, running, survivors) ==
    IF file.servers = <<>>
    THEN [signals |-> <<>>, processes |-> running, state_file |-> file]
    ELSE [signals |-> Kills(RecordedPids(file), "SIGTERM"),
          processes |-> running \ ({file.servers[n] : n \in DOMAIN file.servers} \ survivors),
          state_file |-> Absent]

\* The invocation ends: its action and its exit status.
Finish(action, code) ==
    /\ invocations' = Append(invocations, [action |-> action, exit |-> code])
    /\ exit_code' = code

\* Where start may fail once it has found no recorded server.
StartFaults ==
    {"none", "spawn_backend", "spawn_frontend", "write_state", "write_text", "not_ready"}

\* start() from ensure_ports_available on. start_server raises for the backend or for
\* the frontend, or write_state raises before it has opened the file ("write_state")
\* or after it has truncated it ("write_text"), or a server does not get ready in
\* time, or all goes well. An exception is met with stop() and raised again; a server
\* that is not ready with stop() and SystemExit(1).
Launch(fault, stubborn, survivors) ==
    LET first == Len(spawned) + 1
        second == Len(spawned) + 2
        freed == signals \o PortKills("backend", stubborn) \o PortKills("frontend", stubborn)
        one == Append(spawned, [pid |-> first, name |-> "backend"])
        both == Append(one, [pid |-> second, name |-> "frontend"])
        stopped == StopOutcome(IF fault = "not_ready" THEN Written(first, second)
                               ELSE IF fault = "write_text" THEN Blank
                               ELSE state_file,
                               IF fault = "spawn_backend" THEN {}
                               ELSE IF fault = "spawn_frontend" THEN {first}
                               ELSE {first, second},
                               survivors)
    IN IF fault = "none"
       THEN /\ spawned' = both
            /\ processes' = {first, second}
            /\ signals' = freed
            /\ state_file' = Written(first, second)
            /\ Finish("start", "0")
       ELSE /\ spawned' = (IF fault = "spawn_backend" THEN spawned
                           ELSE IF fault = "spawn_frontend" THEN one ELSE both)
            /\ processes' = stopped.processes
            /\ signals' = freed \o stopped.signals
            /\ state_file' = stopped.state_file
            /\ Finish("start", IF fault = "not_ready" THEN "1" ELSE "exception")

\* What the manager leaves alone.
managerRest ==
    <<test, pc, run, config, probes, attempt, sleeps, backend, requests, created_users,
      snapshot, checks, cursor, last_exc, testVars>>

\* start(env_file, timeout)
Start ==
    /\ test = "servers"
    /\ Len(invocations) < MaxInvocations
    /\ \E env_found \in BOOLEAN, fault \in StartFaults, stubborn \in SUBSET processes,
          survivors \in SUBSET {Len(spawned) + 1, Len(spawned) + 2} :
          IF ~env_found \/ state_file.servers # <<>>
          THEN /\ Finish("start", "1")
               /\ UNCHANGED <<state_file, processes, signals, spawned>>
          ELSE Launch(fault, stubborn, survivors)
    /\ UNCHANGED managerRest

\* stop(env_file)
Stop ==
    /\ test = "servers"
    /\ Len(invocations) < MaxInvocations
    /\ \E survivors \in SUBSET processes :
          LET stopped == StopOutcome(state_file, processes, survivors)
          IN /\ signals' = signals \o stopped.signals
             /\ processes' = stopped.processes
             /\ state_file' = stopped.state_file
    /\ Finish("stop", "0")
    /\ UNCHANGED <<spawned, managerRest>>

\* status(env_file): it reads and logs.
Status ==
    /\ test = "servers"
    /\ Len(invocations) < MaxInvocations
    /\ Finish("status", "0")
    /\ UNCHANGED <<state_file, processes, signals, spawned, managerRest>>

\* A server process ends by itself.
ProcessExits ==
    /\ test = "servers"
    /\ \E q \in processes : processes' = processes \ {q}
    /\ UNCHANGED <<state_file, signals, spawned, invocations, exit_code, managerRest>>

\* The manager before its first invocation: no state file, or one that an earlier
\* run has left and that records nothing.
InitServers ==
    /\ test = "servers"
    /\ pc = "shell"
    /\ NoTest
    /\ config = <<>>
    /\ probes = <<>>
    /\ attempt = 0
    /\ sleeps = <<>>
    /\ backend = <<>>
    /\ requests = <<>>
    /\ created_users = <<>>
    /\ snapshot = <<>>
    /\ checks = <<>>
    /\ exit_code = "none"
    /\ state_file \in {Absent, Blank}
    /\ processes = {}
    /\ signals = <<>>
    /\ cursor = 1
    /\ last_exc = 0
    /\ spawned = <<>>
    /\ invocations = <<>>

NextServers == Start \/ Stop \/ Status \/ ProcessExits

SpecServers == InitServers /\ [][NextServers]_vars

\* ------------------------------------------------------------- properties

InGeneration == test = "generation"

InAudit == test = "audit"

IsGenerate(c) == c.service = "generate"

IsJudge(c) == c.service = "judge"

\* The positions in calls of the judge calls made in attempt i.
JudgeCallsAt(i) == {k \in DOMAIN calls : IsJudge(calls[k]) /\ calls[k].attempt = i}

GenerateCalls == SelectSeq(calls, IsGenerate)

\* The answer to the first judge call of attempt i.
FirstJudgeAnswer(i) ==
    calls[CHOOSE k \in JudgeCallsAt(i) : \A j \in JudgeCallsAt(i) : k <= j].answer

\* The step appends a call to the service.
Called(service) ==
    /\ Len(calls') = Len(calls) + 1
    /\ calls'[Len(calls')].service = service

\* The length a record's note shows for the output the gates saw.
NoteLength(r) == IF r.trimmed >= 0 THEN r.trimmed ELSE r.raw

GateRejected(r) == r.outcome \in {"too short", "insufficient topic coverage"}

\* The last judge outcome the record shows is a rejection.
JudgeRejected(r) ==
    /\ r.outcome = "judged"
    /\ IF r.retry_judge # "" THEN r.retry_judge = "FAIL" ELSE r.judge = "FAIL"

Rejected(r) == GateRejected(r) \/ JudgeRejected(r)

AllRejected == \A k \in DOMAIN attempt_log : Rejected(attempt_log[k])

\* The output has the number of topic keywords the controller requires: min(2, n)
\* of n > 1 keywords, the keyword when there is one, nothing when there is none.
CoverageMet(topic_text, text) ==
    \/ TopicTerms(topic_text) = {}
    \/ /\ Cardinality(TopicTerms(topic_text)) = 1
       /\ Cardinality(MatchedTerms(TopicTerms(topic_text), text)) >= 1
    \/ /\ Cardinality(TopicTerms(topic_text)) > 1
       /\ Cardinality(MatchedTerms(TopicTerms(topic_text), text)) >= 2

\* The controller moves on: the next attempt of the list, or the loop's end after
\* the last one.
MovesOn ==
    \/ /\ index < Len(AttemptConfigs)
       /\ index' = index + 1
       /\ pc' = "attempt"
    \/ /\ index = Len(AttemptConfigs)
       /\ pc' = "loop_end"

\* C1: in a controller run for a pair the generation calls never outnumber the
\* attempt list, and once an attempt is accepted no generation call and no judge
\* call is made for the pair.
C1_EarlyTermination ==
    /\ [](InGeneration => Len(GenerateCalls) <= Len(AttemptConfigs))
    /\ [][InGeneration /\ success /\ success' => calls' = calls]_vars

\* A pair accepted at its second attempt of four has ended, after two generation calls.
C1_Witness ==
    /\ InGeneration
    /\ success
    /\ pc \in {"pair", "passed"}
    /\ index = 2
    /\ Len(AttemptConfigs) = 4
    /\ Len(GenerateCalls) = 2

\* C2: the gates apply in the order length, topic coverage, judge. The judge is
\* called only for an output of length >= 300 that meets the coverage threshold; a
\* record is "too short" exactly when its length is under 300, whatever its
\* coverage, and a coverage rejection has the length; an attempt a gate rejects
\* makes no judge call, and the controller moves on to the next attempt.
C2_GateOrder ==
    /\ [][InGeneration /\ Called("judge")
            => Len(output) >= MinChars /\ CoverageMet(topic, output)]_vars
    /\ [](InGeneration =>
            \A k \in DOMAIN attempt_log :
                /\ (attempt_log[k].outcome = "too short")
                      <=> (NoteLength(attempt_log[k]) < MinChars)
                /\ GateRejected(attempt_log[k]) => JudgeCallsAt(attempt_log[k].index) = {})
    /\ [][InGeneration /\ pc = "attempt" /\ pc' \notin {"judge", "error"}
            => /\ Len(attempt_log') = Len(attempt_log) + 1
               /\ GateRejected(attempt_log'[Len(attempt_log')])
               /\ MovesOn]_vars

\* After a coverage rejection and a length rejection with no judge call, the third
\* attempt of the pair is before the judge.
C2_Witness ==
    /\ InGeneration
    /\ pc = "judge"
    /\ Len(attempt_log) = 2
    /\ attempt_log[1].outcome = "insufficient topic coverage"
    /\ attempt_log[2].outcome = "too short"
    /\ Len(calls) = 3

\* C3: an attempt makes the re-evaluation call if and only if its first judge call
\* rejected and the mode is live; no attempt makes more than two judge calls, and
\* none more than one in offline mode.
C3_SingleStabilization ==
    InGeneration =>
        /\ \A i \in 1..Len(AttemptConfigs) :
              Cardinality(JudgeCallsAt(i)) <= (IF fake THEN 1 ELSE 2)
        /\ pc = "retry" =>
              (~fake /\ IsJudge(calls[Len(calls)])
                     /\ ~JudgePasses(calls[Len(calls)].answer))
        /\ \A k \in DOMAIN attempt_log :
              attempt_log[k].outcome = "judged" =>
                /\ JudgeCallsAt(attempt_log[k].index) # {}
                /\ (Cardinality(JudgeCallsAt(attempt_log[k].index)) = 2)
                      <=> (~fake /\ ~JudgePasses(FirstJudgeAnswer(attempt_log[k].index)))

\* A live pair holds an attempt that made the two judge calls and one that made one.
C3_Witness ==
    /\ InGeneration
    /\ ~fake
    /\ \E j, k \in DOMAIN attempt_log :
          /\ j < k
          /\ attempt_log[j].retry_judge = "FAIL"
          /\ Cardinality(JudgeCallsAt(j)) = 2
          /\ attempt_log[k].judge = "PASS"
          /\ Cardinality(JudgeCallsAt(k)) = 1

\* C4: in live mode, after a first judge call that rejects, a re-evaluation that
\* passes accepts the attempt (the run succeeds at it and the loop stops), sets the
\* stabilized flag, and the record shows the FAIL and the retry PASS; a
\* re-evaluation that rejects too rejects the attempt and leaves the flag alone.
C4_Stabilization ==
    [][InGeneration /\ pc = "retry" /\ Called("judge")
         => /\ ~fake
            /\ Len(attempt_log') = Len(attempt_log) + 1
            /\ attempt_log'[Len(attempt_log')].index = index
            /\ attempt_log'[Len(attempt_log')].judge = "FAIL"
            /\ IF JudgePasses(calls'[Len(calls')].answer)
               THEN /\ attempt_log'[Len(attempt_log')].retry_judge = "PASS"
                    /\ success'
                    /\ stabilized'
                    /\ pc' = "loop_end"
                    /\ index' = index
               ELSE /\ attempt_log'[Len(attempt_log')].retry_judge = "FAIL"
                    /\ ~success'
                    /\ stabilized' = stabilized
                    /\ MovesOn]_vars

\* A pair whose second attempt was rejected twice by the judge was accepted at its
\* third by the re-evaluation.
C4_Witness ==
    /\ InGeneration
    /\ success
    /\ stabilized
    /\ Len(attempt_log) = 3
    /\ attempt_log[2].judge = "FAIL"
    /\ attempt_log[2].retry_judge = "FAIL"
    /\ attempt_log[3].judge = "FAIL"
    /\ attempt_log[3].retry_judge = "PASS"

\* C5: a controller run for a pair ends in the hard failure if and only if every
\* attempt of the list was rejected, by a gate or by the judge after any
\* re-evaluation; the failure is raised only after the loop, with no attempt
\* configuration left untried, and the attempt trace is attached before it.
C5_Exhaustion ==
    /\ [](InGeneration /\ pc = "failed" =>
            /\ ~success
            /\ Len(attempt_log) = Len(AttemptConfigs)
            /\ AllRejected
            /\ \E k \in DOMAIN attachments :
                  /\ attachments[k].name = "attempts"
                  /\ attachments[k].body = attempt_log)
    /\ [][InGeneration /\ pc = "loop_end" =>
            (pc' = "failed") <=> (Len(attempt_log) = Len(AttemptConfigs) /\ AllRejected)]_vars
    /\ [][InGeneration /\ pc' = "failed" => pc \in {"loop_end", "failed"}]_vars

\* A live pair failed after four attempts, rejected by the length gate, the
\* coverage gate and the judge.
C5_Witness ==
    /\ InGeneration
    /\ pc = "failed"
    /\ Len(attempt_log) = 4
    /\ \E i, j, k \in DOMAIN attempt_log :
          /\ attempt_log[i].outcome = "too short"
          /\ attempt_log[j].outcome = "insufficient topic coverage"
          /\ attempt_log[k].retry_judge = "FAIL"

\* C6: when a controller run ends, the trace holds one record per executed attempt,
\* in increasing index order; records are only appended; an attempt the length gate
\* rejects is recorded as "too short", so four too-short outputs end in a rejected
\* run with four such records.
C6_Trace ==
    /\ [](InGeneration => \A k \in DOMAIN attempt_log : attempt_log[k].index = k)
    /\ [](InGeneration /\ pc \in {"loop_end", "failed", "passed"} =>
            Len(attempt_log) = Len(GenerateCalls))
    /\ [][InGeneration /\ pc # "pair" =>
            \/ attempt_log' = attempt_log
            \/ /\ Len(attempt_log') = Len(attempt_log) + 1
               /\ SubSeq(attempt_log', 1, Len(attempt_log)) = attempt_log]_vars
    /\ [][InGeneration /\ pc = "attempt" /\ Len(output') < MinChars /\ pc' # "error" =>
            /\ Len(attempt_log') = Len(attempt_log) + 1
            /\ attempt_log'[Len(attempt_log')].outcome = "too short"]_vars
    /\ [](InGeneration /\ pc = "loop_end" /\ Len(attempt_log) = Len(AttemptConfigs)
            /\ (\A k \in DOMAIN attempt_log : attempt_log[k].outcome = "too short")
          => ~success)

\* A live pair failed with four records, each "too short".
C6_Witness ==
    /\ InGeneration
    /\ pc = "failed"
    /\ Len(attempt_log) = 4
    /\ \A k \in DOMAIN attempt_log : attempt_log[k].outcome = "too short"

\* C7: every seed is a function of identifiers. In a controller run attempt i
\* generates with seed_base + i, the first judge call of an attempt has
\* seed_base + 97 and the re-evaluation seed_base + 197, seed_base being the hash of
\* (scenario_id, model); in the audit iteration k generates with
\* audit_seed_base + k, the hash of (scenario_id, model, "audit").
C7_Seeds ==
    /\ InGeneration =>
          \A k \in DOMAIN calls :
              /\ IsGenerate(calls[k]) =>
                    calls[k].seed =
                        Md5SeedTable[calls[k].scenario][calls[k].generator] + calls[k].attempt
              /\ IsJudge(calls[k]) =>
                    calls[k].seed =
                        Md5SeedTable[calls[k].scenario][calls[k].generator]
                          + (IF k > 1 /\ IsJudge(calls[k - 1]) THEN 197 ELSE 97)
    /\ InAudit =>
          \A k \in DOMAIN calls :
              IsGenerate(calls[k]) =>
                  calls[k].seed =
                      Md5AuditSeedTable[calls[k].scenario][calls[k].generator]
                        + calls[k].iteration

\* The second attempt of a live pair has made its generation call, its judge call
\* and its re-evaluation call.
C7_Witness ==
    /\ InGeneration
    /\ Len(calls) >= 3
    /\ calls[Len(calls)].attempt = 2
    /\ calls[Len(calls)].seed = seed_base + 197
    /\ calls[Len(calls) - 1].seed = seed_base + 97
    /\ calls[Len(calls) - 2].seed = seed_base + 2

\* a is a prefix of b.
IsPrefix(a, b) == Len(a) <= Len(b) /\ SubSeq(b, 1, Len(a)) = a

\* C8: with generation and judge services that are functions of their arguments,
\* two runs of the controller over the same scenario, model and mode give the same
\* attempt traces and the same verdict: the second run's verdicts repeat the
\* first's, and are the first's when it ends.
C8_Deterministic ==
    run = 2 =>
        /\ IsPrefix(verdicts[2], verdicts[1])
        /\ pc \in {"passed", "failed"} => verdicts[2] = verdicts[1]
        /\ pc \in {"attempt", "judge", "retry", "loop_end"} =>
              /\ Len(verdicts[1]) > Len(verdicts[2])
              /\ IsPrefix(attempt_log, verdicts[1][Len(verdicts[2]) + 1].trace)

\* The second run has ended with a pair accepted after a rejected attempt.
C8_Witness ==
    /\ run = 2
    /\ pc \in {"passed", "failed"}
    /\ verdicts[2] # <<>>
    /\ verdicts[2][1].accepted
    /\ verdicts[2][1].accepted_index >= 2
    /\ verdicts[2] = verdicts[1]

\* The tag of a failure reason.
Kind(reason) == IF reason = None THEN "none" ELSE reason[1]

TooShort(r) == r.length < 300

TooLong(r) == r.length > 500

OffTopic(r) == 2 * r.topic_coverage[1] < r.topic_coverage[2]

\* C9: assess_failure_reason returns the first reason in the order too_short,
\* too_long, off_topic, judge_rejected whose condition holds (length < 300,
\* length > 500, coverage < 0.5, judge rejected) whatever the later conditions are,
\* and None if and only if none holds.
C9_Precedence ==
    (test = "assess" /\ pc = "assessed") =>
        /\ TooShort(audit_result) => Kind(audit_result.failure_reason) = "too_short"
        /\ (~TooShort(audit_result) /\ TooLong(audit_result))
              => Kind(audit_result.failure_reason) = "too_long"
        /\ (~TooShort(audit_result) /\ ~TooLong(audit_result) /\ OffTopic(audit_result))
              => Kind(audit_result.failure_reason) = "off_topic"
        /\ (~TooShort(audit_result) /\ ~TooLong(audit_result) /\ ~OffTopic(audit_result)
              /\ ~audit_result.judge_pass)
              => Kind(audit_result.failure_reason) = "judge_rejected"
        /\ (audit_result.failure_reason = None)
              <=> ~(TooShort(audit_result) \/ TooLong(audit_result)
                    \/ OffTopic(audit_result) \/ ~audit_result.judge_pass)

\* A row too short, off topic and rejected by the judge was assessed as too_short.
C9_Witness ==
    /\ test = "assess"
    /\ pc = "assessed"
    /\ TooShort(audit_result)
    /\ OffTopic(audit_result)
    /\ ~audit_result.judge_pass
    /\ Kind(audit_result.failure_reason) = "too_short"

\* The rows the audit handed to the reporting sink for the model.
RowsOf(model_id) ==
    {k \in DOMAIN attachments :
        /\ attachments[k].name = "iteration_detail"
        /\ attachments[k].body.model = model_id}

SuccessesOf(model_id) ==
    {k \in RowsOf(model_id) : attachments[k].body.failure_reason = <<"none">>}

NoSuccess(model_id) == SuccessesOf(model_id) = {}

\* At least one successful run, and a success rate under 0.4.
LowRate(model_id) ==
    /\ SuccessesOf(model_id) # {}
    /\ 5 * Cardinality(SuccessesOf(model_id)) < 2 * Cardinality(RowsOf(model_id))

Named(lines) == {lines[i][1] : i \in DOMAIN lines}

\* C10: the audit fails if and only if some audited model has no successful run
\* over its scenarios and iterations, and the failure names exactly those models; a
\* model with a successful run and a success rate under 0.4 is on the cautionary
\* list and causes no failure; no model is on both lists.
C10_AuditPolicy ==
    (InAudit /\ pc \in {"passed", "failed"}) =>
        /\ (pc = "failed") <=> (\E m \in ModelSet : NoSuccess(m))
        /\ pc = "failed" => Named(failure_message) = {m \in ModelSet : NoSuccess(m)}
        /\ Named(failing_models) = {m \in ModelSet : NoSuccess(m)}
        /\ Named(cautionary_models) = {m \in ModelSet : LowRate(m)}
        /\ Named(cautionary_models) \cap Named(failing_models) = {}
        /\ \A k \in DOMAIN attachments :
              attachments[k].name = "llm_audit_cautionary_models" =>
                  Named(attachments[k].body) = {m \in ModelSet : LowRate(m)}
        /\ ({m \in ModelSet : LowRate(m)} # {}) <=>
              (\E k \in DOMAIN attachments :
                  attachments[k].name = "llm_audit_cautionary_models")

\* The audit failed naming one model, while the other, with one success in four
\* runs, is on the cautionary list.
C10_Witness ==
    /\ InAudit
    /\ pc = "failed"
    /\ Len(failure_message) = 1
    /\ Len(cautionary_models) = 1
    /\ cautionary_models[1][2].successful_runs = 1
    /\ cautionary_models[1][2].total_runs = 4

\* The calls the audit made for iteration k of the pair (model, scenario).
AuditCallsAt(service, model_id, sid, k) ==
    {j \in DOMAIN calls :
        /\ calls[j].service = service
        /\ calls[j].generator = model_id
        /\ calls[j].scenario = sid
        /\ calls[j].iteration = k}

\* The iteration_detail attachments: one per AuditResult row.
DetailRows == {k \in DOMAIN attachments : attachments[k].name = "iteration_detail"}

\* The failure reasons of the rows handed to the reporting sink.
RowKinds == {attachments[k].body.failure_reason[1] : k \in DetailRows}

\* C11: every audit iteration is single-pass. A step of the iteration loop makes
\* one generation call and then one judge call and appends one row, whatever the
\* row's outcome; no iteration of a pair has more than one call of a kind; and
\* every summary has total_runs = scenarios x AUDIT_ITERATIONS.
C11_SinglePass ==
    /\ [][InAudit /\ pc = "iterate" /\ pc' # "error" =>
            /\ Len(calls') = Len(calls) + 2
            /\ SubSeq(calls', 1, Len(calls)) = calls
            /\ IsGenerate(calls'[Len(calls) + 1])
            /\ IsJudge(calls'[Len(calls) + 2])
            /\ Len(model_results') = Len(model_results) + 1]_vars
    /\ [][InAudit /\ pc # "iterate" /\ pc # "start" => calls' = calls]_vars
    /\ [](InAudit =>
            /\ Len(calls) = 2 * Cardinality(DetailRows)
            /\ \A m \in ModelSet, sid \in IdSet, k \in 1..AUDIT_ITERATIONS :
                  /\ Cardinality(AuditCallsAt("generate", m, sid, k)) <= 1
                  /\ Cardinality(AuditCallsAt("judge", m, sid, k))
                        = Cardinality(AuditCallsAt("generate", m, sid, k))
            /\ \A m \in DOMAIN model_summaries :
                  model_summaries[m].total_runs = Len(scenarios) * AUDIT_ITERATIONS)

\* An audit of two scenarios has ended with four runs of each model, among them a
\* row too short, a row rejected by the judge and a successful row.
C11_Witness ==
    /\ InAudit
    /\ pc \in {"passed", "failed"}
    /\ Len(scenarios) = 2
    /\ Len(calls) = 16
    /\ {"too_short", "judge_rejected", "none"} \subseteq RowKinds
    /\ \A m \in ModelSet : model_summaries[m].total_runs = 4

RECURSIVE SumOver(_, _)
\* The sum of f over the keys in keys.
SumOver(f, keys) ==
    IF keys = {} THEN 0
    ELSE LET k == CHOOSE x \in keys : TRUE
         IN f[k] + SumOver(f, keys \ {k})

\* The rows of the model handed to the reporting sink with the failure reason.
RowsWith(model_id, reason) ==
    {k \in RowsOf(model_id) : attachments[k].body.failure_reason = reason}

\* The failure reasons of the model's failed rows.
ReasonsOf(model_id) ==
    {attachments[k].body.failure_reason : k \in RowsOf(model_id) \ SuccessesOf(model_id)}

\* C12: in every model's summary successful_runs + failed_runs = total_runs, the
\* successful rows are the rows whose failure_reason is None, failures_by_reason
\* counts each failed row once under its own reason and sums to failed_runs, and
\* success_rate is successful_runs / total_runs, 0.0 when there is no run.
C12_SummaryArithmetic ==
    InAudit =>
        \A m \in DOMAIN model_summaries :
            /\ model_summaries[m].model = m
            /\ model_summaries[m].successful_runs + model_summaries[m].failed_runs
                  = model_summaries[m].total_runs
            /\ model_summaries[m].total_runs = Cardinality(RowsOf(m))
            /\ model_summaries[m].successful_runs = Cardinality(SuccessesOf(m))
            /\ DOMAIN model_summaries[m].failures_by_reason = ReasonsOf(m)
            /\ \A reason \in ReasonsOf(m) :
                  model_summaries[m].failures_by_reason[reason]
                      = Cardinality(RowsWith(m, reason))
            /\ SumOver(model_summaries[m].failures_by_reason, ReasonsOf(m))
                  = model_summaries[m].failed_runs
            /\ IF model_summaries[m].total_runs = 0
               THEN model_summaries[m].success_rate = <<0, 1>>
               ELSE model_summaries[m].success_rate
                      = <<model_summaries[m].successful_runs, model_summaries[m].total_runs>>

\* A model was summarised with four runs: one successful, two failed for the same
\* reason and one for another.
C12_Witness ==
    /\ InAudit
    /\ \E m \in DOMAIN model_summaries :
          /\ model_summaries[m].total_runs = 4
          /\ model_summaries[m].successful_runs = 1
          /\ Cardinality(ReasonsOf(m)) = 2
          /\ \E reason \in ReasonsOf(m) : model_summaries[m].failures_by_reason[reason] = 2

\* The summary generate_recommendation was called on.
TheSummary == model_summaries[CHOOSE m \in DOMAIN model_summaries : TRUE]

\* The band of the rate successful / total (0.0 when total is 0), from the counts.
BandOf(successful, total) ==
    IF total = 0 \/ 5 * successful < 2 * total THEN "REPLACE IMMEDIATELY"
    ELSE IF 5 * successful < 3 * total THEN "CONSIDER REPLACEMENT"
    ELSE IF 5 * successful < 4 * total THEN "ACCEPTABLE"
    ELSE "PERFORMING WELL"

\* C13: the recommendation is a function of success_rate alone, with half-open
\* bands: under 0.4 "replace immediately", [0.4, 0.6) "consider replacement",
\* [0.6, 0.8) "acceptable", 0.8 and over "performing well"; 0.4, 0.6 and 0.8 fall
\* in the upper band.
C13_Tiers ==
    (test = "recommend" /\ pc = "recommended") =>
        /\ TheSummary.recommendation
              = BandOf(TheSummary.successful_runs, TheSummary.total_runs)
        /\ TheSummary.recommendation
              \in {"REPLACE IMMEDIATELY", "CONSIDER REPLACEMENT", "ACCEPTABLE",
                   "PERFORMING WELL"}
        /\ (5 * TheSummary.successful_runs = 2 * TheSummary.total_runs
              /\ TheSummary.total_runs > 0)
              => TheSummary.recommendation = "CONSIDER REPLACEMENT"
        /\ (5 * TheSummary.successful_runs = 3 * TheSummary.total_runs
              /\ TheSummary.total_runs > 0)
              => TheSummary.recommendation = "ACCEPTABLE"
        /\ (5 * TheSummary.successful_runs = 4 * TheSummary.total_runs
              /\ TheSummary.total_runs > 0)
              => TheSummary.recommendation = "PERFORMING WELL"

\* A summary with 2 successful runs of 5, the rate 0.4, was recommended
\* "consider replacement".
C13_Witness ==
    /\ test = "recommend"
    /\ pc = "recommended"
    /\ TheSummary.successful_runs = 2
    /\ TheSummary.total_runs = 5
    /\ TheSummary.recommendation = "CONSIDER REPLACEMENT"

\* The keywords of the topic that occur in the text, case folded.
Found(topic_text, text) == MatchedTerms(TopicTerms(topic_text), text)

\* The number of keywords the coverage gate requires of a topic with n keywords.
RequiredOf(n) == IF n > 1 THEN (IF n < 2 THEN n ELSE 2) ELSE 1

\* The last record of the trace after the step.
NewRecord == attempt_log'[Len(attempt_log')]

\* The elements of a list.
Elements(list) == {list[i] : i \in DOMAIN list}

\* C14: the coverage gate rejects an attempt exactly when the output holds fewer
\* distinct topic keywords than required: min(2, n) of n > 1 keywords, 1 of one
\* keyword; it passes every output of a topic with no keyword; a rejection's note
\* lists at most 3 of the missing keywords.
C14_CoverageGate ==
    [][(InGeneration /\ pc = "attempt" /\ pc' # "error" /\ Len(output') >= MinChars) =>
          /\ (pc' # "judge")
                <=> /\ TopicTerms(topic) # {}
                    /\ Cardinality(Found(topic, output'))
                          < RequiredOf(Cardinality(TopicTerms(topic)))
          /\ pc' # "judge" =>
                /\ Len(attempt_log') = Len(attempt_log) + 1
                /\ NewRecord.outcome = "insufficient topic coverage"
                /\ NewRecord.keywords
                      = <<Cardinality(Found(topic, output')), Cardinality(TopicTerms(topic))>>
                /\ Len(NewRecord.missing) <= 3
                /\ Cardinality(Elements(NewRecord.missing)) = Len(NewRecord.missing)
                /\ Elements(NewRecord.missing)
                      \subseteq (TopicTerms(topic) \ Found(topic, output'))
                /\ Len(NewRecord.missing) < 3 =>
                      Elements(NewRecord.missing)
                          = (TopicTerms(topic) \ Found(topic, output'))
          /\ pc' = "judge" => attempt_log' = attempt_log]_vars

\* For a topic of five keywords, an attempt with one keyword was rejected with three
\* of the four missing keywords in its note, and the next, with two keywords, is
\* before the judge.
C14_Witness ==
    /\ InGeneration
    /\ pc = "judge"
    /\ Cardinality(TopicTerms(topic)) = 5
    /\ Len(attempt_log) = 1
    /\ attempt_log[1].outcome = "insufficient topic coverage"
    /\ attempt_log[1].keywords = <<1, 5>>
    /\ Len(attempt_log[1].missing) = 3
    /\ note.keywords = <<2, 5>>

\* The lower-case form of a character.
Fold(c) == IF c \in UpperSet THEN LowerMap[c] ELSE c

\* The positions where a run of letters of t begins.
RunStarts(t) ==
    {i \in 1..Len(t) : t[i] \in AlphaSet /\ (i = 1 \/ t[i - 1] \notin AlphaSet)}

\* The length of the run of letters of t that begins at i.
RunLength(t, i) ==
    CHOOSE n \in 1..(Len(t) - i + 1) :
        /\ \A d \in 0..(n - 1) : t[i + d] \in AlphaSet
        /\ (i + n > Len(t) \/ t[i + n] \notin AlphaSet)

\* The distinct case-folded runs of more than three letters of t.
KeywordsOf(t) ==
    {[d \in 1..RunLength(t, i) |-> Fold(t[i + d - 1])] :
        i \in {k \in RunStarts(t) : RunLength(t, k) > 3}}

\* w occurs in o when the case of the letters of o is ignored.
Occurs(o, w) ==
    \E k \in 0..(Len(o) - Len(w)) : \A d \in 1..Len(w) : Fold(o[k + d]) = w[d]

\* C15: for every output and topic the coverage is matched / total and lies between
\* 0 and 1, where total counts the distinct case-folded runs of more than three
\* letters of the topic and matched those of them that occur in the output whatever
\* its case; it is 1 when the topic has no such run, the empty topic included.
C15_CoverageBounds ==
    (test = "coverage" /\ pc = "covered") =>
        /\ audit_result.topic_coverage[2] > 0
        /\ audit_result.topic_coverage[1] >= 0
        /\ audit_result.topic_coverage[1] <= audit_result.topic_coverage[2]
        /\ IF KeywordsOf(given_topic) = {}
           THEN audit_result.topic_coverage = <<1, 1>>
           ELSE audit_result.topic_coverage =
                   <<Cardinality({w \in KeywordsOf(given_topic) : Occurs(given_text, w)}),
                     Cardinality(KeywordsOf(given_topic))>>

\* A topic of three keywords, two of them in the output, one only in capitals.
C15_Witness ==
    /\ test = "coverage"
    /\ pc = "covered"
    /\ given_topic = JoinWords(<<<<"S", "o", "l", "a", "r">>, <<"w", "i", "n", "d", "2", "t", "i", "d", "e">>>>)
    /\ given_text = JoinWords(<<<<"S", "O", "L", "A", "R">>, <<"s", "w", "i", "n", "d", "s">>>>)
    /\ audit_result.topic_coverage = <<2, 3>>

\* C16: the normalized output is never longer than the limit, whether or not a space
\* lies in the first characters up to the limit, and the empty raw output gives the
\* empty output.
C16_LengthBound ==
    (test = "normalize" /\ pc = "normalized") =>
        /\ Len(output) <= given_limit
        /\ (given_text = <<>> => output = <<>>)

\* The word of 501 letters under the limit of the tests is cut to 500 characters.
C16_Witness ==
    /\ test = "normalize"
    /\ pc = "normalized"
    /\ given_text = LongWord
    /\ given_limit = MaxChars
    /\ Len(output) = MaxChars

\* C17: when the collapsed output is longer than the limit, the normalized output is
\* a prefix of the collapsed output that ends at a word boundary (the end of the
\* text, or a position followed by a space), so that no word is split, whatever the
\* input, one whose first word is longer than the limit included.
C17_NoSplitWord ==
    (test = "normalize" /\ pc = "normalized"
        /\ Len(Collapse(given_text)) > given_limit) =>
            /\ Len(output) <= Len(Collapse(given_text))
            /\ output = SubSeq(Collapse(given_text), 1, Len(output))
            /\ \/ Len(output) = 0
               \/ Len(output) = Len(Collapse(given_text))
               \/ Collapse(given_text)[Len(output) + 1] = " "

\* No two dashes in a row, no two whitespace characters in a row, no whitespace at
\* either end.
Clean(o) ==
    /\ \A i \in 1..(Len(o) - 1) : ~(o[i] = "-" /\ o[i + 1] = "-")
    /\ \A i \in 1..(Len(o) - 1) : ~(o[i] \in Whitespace /\ o[i + 1] \in Whitespace)
    /\ (o # <<>> => o[1] \notin Whitespace /\ o[Len(o)] \notin Whitespace)

\* C18: normalizing a normalized output with the same limit leaves it as it is, and
\* a normalized output holds no run of two or more dashes, no run of two or more
\* whitespace characters and no whitespace at either end.
C18_Idempotent ==
    [][(test = "normalize" /\ pc' # pc) =>
            /\ Clean(output')
            /\ (pc = "normalized" => output' = output)]_vars

\* A raw output with a dash run and a newline, trimmed to its first word, comes
\* back unchanged from the second normalization.
C18_Witness ==
    /\ test = "normalize"
    /\ pc = "renormalized"
    /\ given_text = <<"a", "-", "-", "\n", "a">>
    /\ given_limit = 2
    /\ output = <<"a">>

\* The backend lacks a generator model or the judge model, or prompts.yaml is absent.
PreconditionFails ==
    \/ ~promptsExist
    \/ (~fake /\ \E m \in {GENERATOR_MODELS[i] : i \in 1..Len(GENERATOR_MODELS)}
                            \cup {JUDGE_MODEL} : m \notin installed)

\* C19: when the probe answers false for a generator model or the judge model, or
\* the prompt definitions are missing, the run of either test ends as skipped, with
\* no call to the generation service or the judge service, and nothing of the
\* failure path: no failure record, no failure attachment, no pytest.fail.
C19_Skip ==
    ((test \in {"generation", "audit"}) /\ PreconditionFails /\ pc # "start") =>
        /\ pc = "skipped"
        /\ calls = <<>>
        /\ attempt_log = <<>>
        /\ failure_log = <<>>
        /\ attachments = <<>>
        /\ failure_message = <<>>
        /\ model_summaries = <<>>

\* The audit over two scenarios, with the prompts present and only the judge model
\* missing, has ended as skipped.
C19_Witness ==
    /\ test = "audit"
    /\ pc = "skipped"
    /\ promptsExist
    /\ ~fake
    /\ installed = {GENERATOR_MODELS[i] : i \in 1..Len(GENERATOR_MODELS)}
    /\ Len(scenarios) = 2
    /\ calls = <<>>

\* Two generate requests for the same model and the same prompt (the template is
\* one per run, so the prompt is that of the scenario).
SameRequest(a, b) ==
    /\ IsGenerate(a)
    /\ IsGenerate(b)
    /\ a.model = b.model
    /\ a.scenario = b.scenario

\* C20: in offline mode two generate calls for the same model and prompt return the
\* same output whatever their options, every output is one the stub writes and none
\* is an answer of the backend, ensure_model is true for every model so that no run
\* is skipped for a missing model, and every judge verdict is a pass.
C20_OfflineStub ==
    fake =>
        /\ \A m \in AllModels : EnsureModel(m)
        /\ (promptsExist /\ pc # "start" => pc # "skipped")
        /\ \A i, j \in DOMAIN calls :
              SameRequest(calls[i], calls[j]) => calls[i].answer = calls[j].answer
        /\ \A i \in DOMAIN calls :
              /\ calls[i].answer \notin Samples \cup JudgeTexts
              /\ IsGenerate(calls[i]) =>
                    \/ IsPrefix(FakeA, calls[i].answer)
                    \/ IsPrefix(StubResponse, calls[i].answer)
              /\ IsJudge(calls[i]) =>
                    /\ IsPrefix(PassStub, calls[i].answer)
                    /\ JudgePasses(calls[i].answer)
        /\ \A k \in DOMAIN model_results : model_results[k].judge_pass

\* An offline audit has asked the same model for the same prompt with two seeds and
\* has been given the same article both times, judged a pass both times.
C20_Witness ==
    /\ fake
    /\ test = "audit"
    /\ \E i, j \in DOMAIN calls :
          /\ SameRequest(calls[i], calls[j])
          /\ calls[i].seed # calls[j].seed
          /\ calls[i].answer = calls[j].answer
          /\ Len(calls[i].answer) >= FakeMinLen
    /\ Cardinality({i \in DOMAIN calls : IsJudge(calls[i])}) >= 2

\* C21: an offline run with a prompt that asks for an article and names its topic
\* passes: each pair of the controller is accepted on attempt 1 after one generation
\* call and one judge call, every audit row has no failure reason, and every audited
\* model has a success rate of 1.
C21_OfflinePass ==
    (fake /\ template = "article") =>
        /\ pc # "failed"
        /\ test = "generation" =>
              /\ failure_log = <<>>
              /\ pc = "loop_end" =>
                    /\ success
                    /\ index = 1
                    /\ Len(attempt_log) = 1
                    /\ Len(calls) = 2
                    /\ IsGenerate(calls[1])
                    /\ IsJudge(calls[2])
        /\ test = "audit" =>
              /\ \A k \in DOMAIN model_results : model_results[k].failure_reason = None
              /\ \A m \in DOMAIN model_summaries :
                    model_summaries[m].success_rate[1] = model_summaries[m].success_rate[2]

\* C22: a failure of the backend call of a generation or of a judge call ends the
\* test with the service error: it happens in live mode only, it returns no output
\* and no verdict (nothing joins the call log, the attempt log, the failure log, the
\* rows or the attachments), no gate rejects and no further attempt or iteration
\* follows; the probe of the models never ends the test with an error.
C22_ServiceError ==
    [][/\ pc # "error"
       /\ pc = "start" => pc' # "error"
       /\ pc' = "error" =>
             /\ ~fake
             /\ pc \in {"attempt", "judge", "retry", "iterate"}
             /\ calls' = calls
             /\ attempt_log' = attempt_log
             /\ failure_log' = failure_log
             /\ index' = index
             /\ output' = output
             /\ success' = success
             /\ model_results' = model_results
             /\ attachments' = attachments]_vars

\* The backend failed at the generation call of the second attempt, after a first
\* attempt that was rejected.
C22_Witness ==
    /\ test = "generation"
    /\ pc = "error"
    /\ index = 2
    /\ Len(attempt_log) = 1
    /\ ~success
    /\ ~IsGenerate(calls[Len(calls)]) \/ calls[Len(calls)].attempt = 1

\* The requests of the second run of the seed script.
SecondRun == SelectSeq(requests, LAMBDA r : r.run = 2)

\* What follows the k-th request r of the log is what register_user and
\* ensure_article do with its answer: a registration answered 422 is followed by the
\* login of that user; a GET by slug answered 200 is followed by a PUT to that slug
\* and any other GET by a POST of the article.
FollowsAnswer(k) ==
    LET r == requests[k]
    IN /\ (r.path = "/users" /\ r.status = 422) =>
            /\ k < Len(requests)
            /\ requests[k + 1].method = "POST"
            /\ requests[k + 1].path = "/users/login"
            /\ requests[k + 1].key = r.key
       /\ r.method = "GET" =>
            /\ k < Len(requests)
            /\ requests[k + 1].key = r.key
            /\ requests[k + 1].method = (IF r.status = 200 THEN "PUT" ELSE "POST")
       /\ (r.method \in {"PUT", "POST"} /\ r.path \in {"/articles/{slug}", "/articles"}) =>
            /\ k > 1
            /\ requests[k - 1].method = "GET"

Waited ==
    \/ pc \in {"users", "articles"}
    \/ pc = "done" /\ exit_code \in {"0", "1"}

\* C30: _wait_for_backend returns normally only if a probe was answered with a status
\* below 500; when every probe fails, by an exception or by a status of 500 or above,
\* it raises RuntimeError and no seeding request is sent.
C30_WaitGuardsSeeding ==
    (test = "seed" /\ \A k \in 1..Len(probes) : probes[k] # "ok") =>
        /\ ~Waited
        /\ requests = <<>>

\* The text begins, after its leading whitespace, with the letters of PASS in either
\* case, and whitespace or nothing follows them.
BeginsWithPassToken(text) ==
    \E k \in 1..Len(text) :
        /\ \A j \in 1..(k - 1) : IsWs(text[j])
        /\ k + 3 <= Len(text)
        /\ text[k] \in {"P", "p"}
        /\ text[k + 1] \in {"A", "a"}
        /\ text[k + 2] \in {"S", "s"}
        /\ text[k + 3] \in {"S", "s"}
        /\ (k + 3 = Len(text) \/ IsWs(text[k + 4]))

\* part is text without the whitespace around it.
IsStripped(part, text) ==
    /\ part # <<>> => ~IsWs(part[1]) /\ ~IsWs(part[Len(part)])
    /\ \E a \in 0..Len(text) :
          /\ a + Len(part) <= Len(text)
          /\ part = SubSeq(text, a + 1, a + Len(part))
          /\ \A j \in (1..a) \cup ((a + Len(part) + 1)..Len(text)) : IsWs(text[j])

\* The judge's verdict follows the first token, and the reasoning is the answer as
\* the judge model gave it.
C24_ReasoningIsAnswer ==
    (test = "judge" /\ pc = "judged") =>
        /\ success <=> BeginsWithPassToken(given_text)
        /\ judge_text = given_text

\* C24: in live mode the verdict is a pass exactly when the first whitespace-delimited
\* token of the judge's stripped answer, upper-cased, is PASS: an empty answer, an
\* answer that begins with FAIL and a first token of PASS with punctuation after it
\* are rejections. In both cases the reasoning returned is the stripped answer.
C24_JudgeVerdict ==
    (test = "judge" /\ pc = "judged") =>
        /\ success <=> BeginsWithPassToken(given_text)
        /\ Strip(given_text) = <<>> => ~success
        /\ (Len(judge_text) >= 4 /\ SubSeq(judge_text, 1, 4) = <<"F", "A", "I", "L">>) => ~success
        /\ (Len(judge_text) >= 5 /\ judge_text[5] \in {".", ":"}) => ~success
        /\ IsStripped(judge_text, given_text)

\* A rejection for punctuation after PASS, of an answer that came with whitespace
\* around it.
C24_Witness ==
    /\ test = "judge"
    /\ pc = "judged"
    /\ ~success
    /\ judge_text # given_text
    /\ Len(judge_text) >= 5
    /\ SubSeq(judge_text, 1, 5) = <<"P", "A", "S", "S", ".">>

\* The calls of the wrapped function made for check c, in order.
CallsOf(c) == SelectSeq(requests, LAMBDA r : r.check = c)

\* _retry_with_backoff as the claim describes it. For each check (the function called
\* alone is check 1): it makes at most `retries` calls, numbered from 1, and each call
\* but the first follows a call that raised. Called alone, it returns with the call
\* that succeeded (or without a call when retries is 0), it raises exactly when all
\* of at least one call raised, the exception being that of the last call, and its
\* k-th wait follows the failed call k < retries and is min(backoff * 2^(k-1),
\* max_backoff). Inside a check nothing is raised: each check gives a CheckResult,
\* whose success is false exactly when every call of its probe raised.
RetryAndChecks ==
    /\ \A c \in 1..Len(probes) :
          /\ Len(CallsOf(c)) <= config.retries
          /\ \A k \in 1..Len(CallsOf(c)) :
                /\ CallsOf(c)[k].call = k
                /\ k > 1 => probes[c][k - 1] = "raise"
    /\ test = "retry" =>
          /\ pc = "returned" =>
                \/ config.retries = 0 /\ requests = <<>>
                \/ /\ probes[1][attempt] = "ok"
                   /\ Len(requests) = attempt
          /\ pc = "raised" =>
                /\ config.retries >= 1
                /\ \A k \in 1..config.retries : probes[1][k] = "raise"
                /\ Len(requests) = config.retries
                /\ last_exc = config.retries
          /\ Len(sleeps) <= Len(requests)
          /\ Len(sleeps) < config.retries \/ config.retries = 0
          /\ pc \in {"returned", "raised"} =>
                Len(sleeps) = Cardinality({k \in 1..Len(requests) :
                                            probes[1][k] = "raise" /\ k < config.retries})
          /\ \A k \in 1..Len(sleeps) :
                LET doubled == config.backoff * (2 ^ (k - 1))
                IN sleeps[k] = (IF doubled <= config.max_backoff THEN doubled
                                ELSE config.max_backoff)
    /\ test = "health" =>
          /\ pc # "raised"
          /\ pc \in {"report", "done"} /\ config.env_file /\ config.base_url =>
                Len(checks) = Len(CheckNames)
          /\ \A k \in 1..Len(checks) :
                /\ checks[k].name = CheckNames[k]
                /\ checks[k].success <=> \E j \in 1..config.retries : probes[k][j] = "ok"

\* main returns 1 if and only if some check failed.
C25_ExitOneIffFailed ==
    /\ RetryAndChecks
    /\ (test = "health" /\ pc = "done") =>
          (exit_code = "1" <=> \E k \in 1..Len(checks) : ~checks[k].success)

\* C25: _retry_with_backoff makes at most `retries` calls, stops at the first that
\* succeeds and returns its result, re-raises the exception of the last call when all
\* raise, waits min(backoff * 2^(k-1), max_backoff) after the failed call k < retries
\* and never after the last call; the health checks never raise, a check whose probe
\* fails on every try is a CheckResult with success false; and main, once it has read
\* its configuration (the env file exists and API_BASE_URL is set), returns 1 if and
\* only if some check failed.
C25_RetryAndExit ==
    /\ RetryAndChecks
    /\ (test = "health" /\ pc = "done" /\ config.env_file /\ config.base_url) =>
          /\ exit_code \in {"0", "1"}
          /\ exit_code = "1" <=> \E k \in 1..Len(checks) : ~checks[k].success

\* main ended with 1 after three checks: the first failed on each of its five tries,
\* the second succeeded at its third call.
C25_Witness ==
    /\ test = "health"
    /\ pc = "done"
    /\ exit_code = "1"
    /\ Len(checks) = 3
    /\ ~checks[1].success
    /\ checks[1].detail = CheckRetries
    /\ checks[2].success
    /\ checks[2].detail = 3
    /\ checks[3].success

\* The raw generation output of the audit row last recorded.
LastAuditRaw == calls[Len(calls) - 1].answer

\* C27: each failure reason of the precedence can be recorded by the audit; in
\* particular a raw output of more than 500 characters after whitespace collapsing
\* is recorded as too_long.
C27_TooLongRecorded ==
    (/\ test = "audit"
     /\ audit_result # NoResult
     /\ Len(calls) >= 2
     /\ Measured(LastAuditRaw).raw > MaxChars) =>
        /\ audit_result.failure_reason # None
        /\ audit_result.failure_reason[1] = "too_long"

\* The keywords of the topic and those of them the normalized output holds.
AgreeTerms == TopicTerms(topic)

AgreeMatched == MatchedTerms(AgreeTerms, Measured(given_text).out)

\* The controller's coverage rule: no keyword, or one matched keyword of one, or two
\* matched keywords of more.
ControllerRule ==
    \/ AgreeTerms = {}
    \/ Cardinality(AgreeMatched) >= (IF Cardinality(AgreeTerms) = 1 THEN 1 ELSE 2)

\* The audit's coverage rule: at least half of the keywords are matched.
AuditRule == 2 * Cardinality(AgreeMatched) >= Cardinality(AgreeTerms)

\* The audit gives failure_reason None exactly when the controller's attempt with
\* the same output and the same first judge verdict is accepted.
C26_AuditAgrees ==
    (test = "agree" /\ pc = "compared") =>
        (audit_result.failure_reason = None <=> success)

\* C26: the audit's classification agrees with the controller's gates, for every
\* normalized output, topic and judge verdict on which the two coverage rules give
\* the same answer: the audit gives failure_reason None exactly when the controller's
\* attempt with that output and that first judge verdict is accepted without
\* stabilization. (The rules differ: the controller wants two matched keywords, one
\* when the topic has one; the audit wants half of the keywords matched.)
C26_AgreesWhereRulesDo ==
    (test = "agree" /\ pc = "compared" /\ (ControllerRule <=> AuditRule)) =>
        (audit_result.failure_reason = None <=> success)

\* An output over the limit before the trim, with both keywords of its topic,
\* accepted by the controller and given no failure reason by the audit.
C26_Witness ==
    /\ test = "agree"
    /\ pc = "compared"
    /\ success
    /\ audit_result.failure_reason = None
    /\ Measured(given_text).trimmed
    /\ Cardinality(AgreeTerms) = 2
    /\ Cardinality(AgreeMatched) = 2

\* The step ends an invocation of the manager's action.
Invoked(action) ==
    /\ Len(invocations') = Len(invocations) + 1
    /\ invocations'[Len(invocations')].action = action

\* The step leaves processes, signals and the state file as they were.
NothingTouched == UNCHANGED <<spawned, signals, state_file, processes>>

\* start spawns only when the state file is absent or records nothing, and with
\* recorded servers it exits with status 1 and touches nothing.
StartGuarded ==
    /\ spawned' # spawned => (Invoked("start") /\ state_file.servers = <<>>)
    /\ (Invoked("start") /\ state_file.servers # <<>>) =>
          (exit_code' = "1" /\ NothingTouched)

\* stop with no recorded servers sends no signal and changes nothing.
StopIdle == (Invoked("stop") /\ state_file.servers = <<>>) => NothingTouched

\* The original statement of C28: start is guarded by the state file, after stop
\* returns the state file does not exist, and stop with no recorded servers sends
\* no signal and changes nothing.
C28_StopLeavesNoFile ==
    [][/\ StartGuarded
       /\ Invoked("stop") => ~state_file'.exists
       /\ StopIdle]_vars

\* C28: in any sequence of start, stop and status, start spawns server processes only
\* when the state file is absent or records nothing; when it records servers, start
\* exits with status 1 without spawning a process, sending a signal or modifying the
\* state file. After stop returns from recorded servers the state file does not
\* exist, and stop with no recorded servers sends no signal and changes nothing.
C28_StartStopGuard ==
    [][/\ StartGuarded
       /\ (Invoked("stop") /\ state_file.servers # <<>>) => ~state_file'.exists
       /\ StopIdle]_vars

\* start has spawned both servers, a second start has been refused over the servers
\* recorded, and stop has removed the state file.
C28_Witness ==
    /\ Len(invocations) = 3
    /\ invocations[1] = [action |-> "start", exit |-> "0"]
    /\ invocations[2] = [action |-> "start", exit |-> "1"]
    /\ invocations[3].action = "stop"
    /\ ~state_file.exists
    /\ Len(spawned) = 2

\* The SIGTERMs sent during the step.
Terminated ==
    {signals'[k].pid : k \in {j \in Len(signals) + 1..Len(signals') :
                                  signals'[j].sig = "SIGTERM"}}

\* C29: whenever start terminates with a failure (a readiness timeout or an
\* exception) after it has spawned at least one server process, every process it
\* spawned has been sent SIGTERM and the state file has been removed; no spawned
\* process is left running unrecorded.
C29_FailedStartCleansUp ==
    [][(Invoked("start") /\ exit_code' # "0" /\ spawned' # spawned) =>
          /\ Len(spawned) + 1..Len(spawned') \subseteq Terminated
          /\ ~state_file'.exists
          /\ \A q \in processes' :
                q > Len(spawned) =>
                   q \in {state_file'.servers[n] : n \in DOMAIN state_file'.servers}]_vars

============================================================================
